---- MODULE Spec2Model ----
(***************************************************************************)
(* The entity store of the moderation pipeline: the four status tables of  *)
(* one entity kind (users or groups), the transactions that move rows      *)
(* between them, and the review-claim queries; and the affiliation        *)
(* tracker: the per-group rows of user IDs, the calls that append to them  *)
(* and the call that hands out the groups with enough users.              *)
(* Beside them: the friend and group checkers with their confidence       *)
(* score, the fan-out and fan-in of a batch over goroutines and a channel, *)
(* the worker loop that feeds them, and the votes with their verification. *)
(*                                                                         *)
(* The database is PostgreSQL at READ COMMITTED.  A transaction's writes   *)
(* are buffered in txw and reach the tables at commit; a row a transaction *)
(* has written or selected FOR UPDATE stays locked until the transaction   *)
(* ends.  A writer waits for a locked row (its action is disabled), a      *)
(* SKIP LOCKED reader passes over it.                                      *)
(*                                                                         *)
(* Timestamps are kept as ages: the time elapsed since the instant they    *)
(* name, saturating at AgeCap.  The zero time.Time is AgeCap.              *)
(***************************************************************************)
EXTENDS Integers, FiniteSets, Sequences, TLC

\* ---- bounds of the model ----
NumIDs == 2
NumProcs == 2
MaxKey == 2
TickStep == 10
MaxUsers == 6
NumVoters == 2

\* ---- program constants ----
\* "last_viewed < NOW() - INTERVAL '10 minutes'"
ReviewCooldown == 10
LegacyCooldown == 5

IDs == 1..NumIDs
Procs == 1..NumProcs
Keys == 1..MaxKey
AgeCap == ReviewCooldown + TickStep

Kinds == {"user", "group"}
Statuses == {"flagged", "confirmed", "cleared", "banned"}
SortPolicies == {"confidence", "last_updated", "reputation", "random"}
TargetModes == {"flagged", "confirmed", "cleared", "banned"}

VARIABLES
  kind,      \* which model the store is: UserModel or GroupModel
  tables,    \* tables[st][id]: the committed row of id in status table st, or NoRow
  lock,      \* lock[st][id]: the session holding the row lock, 0 when free
  settings,  \* settings[p]: the reviewer's sort policy, target mode and review mode
  pc,        \* pc[p]: where session p stands in its current call
  loc,       \* loc[p]: the locals of the current call
  txw,       \* txw[p]: the uncommitted writes of p's open transaction
  target,    \* target[p]: the entity copy the reviewer's session holds
  ret,       \* ret[p]: what p's last call returned (ok, notfound, error), until p's next call
  viewedAgo, \* viewedAgo[id]: age of the stamp of the last review claim that returned id
  tracking,  \* tracking[g]: the committed group_member_tracking row of group g, or NoTracking
  trackLock, \* trackLock[g]: the session holding the lock of g's tracking row or key, 0 when free
  tpc,       \* tpc[p]: where session p stands in its current tracking call
  tloc,      \* tloc[p]: the locals of that call
  ttxw,      \* ttxw[p]: the uncommitted tracking rows of p's open transaction
  tret,      \* tret[p]: what p's last tracking call returned
  drained,   \* history: the groups some qualification call has returned so far
  acked,     \* history: acked[g] is the set of users passed by the tracking calls that returned nil
  checker,   \* which ProcessUsers is running: the friend or the group checker's
  userInfos, \* userInfos[id]: the fetched profile of each user of the batch
  task,      \* task[id]: where the goroutine of profile id stands
  res,       \* res[id]: what processUserFriends/processUserGroups returned for id
  resultsChan, \* the buffered results channel
  closed,    \* whether the results channel has been closed
  results,   \* the map ProcessUsers collects the channel into
  ppc,       \* where ProcessUsers itself stands
  flaggedUsers,   \* first return value of ProcessUsers: user ID -> the flagged user record's ID
  remainingUsers, \* second return value of ProcessUsers: the users left for further checking
  validUsers, \* return value of FetchInfos: the users whose profile was fetched
  pending,   \* the tracking goroutines processUserGroups started that have not run yet
  signals,   \* the (group, user) pairs whose tracking call returned nil
  wpc,       \* where the worker's loop stands
  oldIDs,    \* oldFriendIDs / oldUserIDs: the IDs carried into the next iteration
  friendIDs, \* friendIDs / userIDs: the ID list of the current iteration
  failedValidationIDs, \* what the user checker returned in the current iteration
  votes,     \* votes[v]: the committed vote row of voter v for the target, or NoVote
  voteStats, \* voteStats[v]: the number of vote_stats rows made from v's vote
  voteLock,  \* voteLock[v]: the session holding the lock of v's vote row, 0 when free
  vpc,       \* vpc[p]: where session p stands in its VerifyVotes call
  vtx,       \* vtx[p]: the rows the open transaction of p has updated
  verifications, \* history: verifications[v] is how often is_correct of v's vote was set
  scan,      \* the scan queue: the last_scanned columns, the row locks and the workers' GetUserToScan calls
  member,    \* the member worker: its loop position, its ID list and the page cursor of processGroup
  runner     \* runWorker: where the supervised worker stands and how often it was started

trackVars == <<tracking, trackLock, tpc, tloc, ttxw, tret, drained, acked>>
storeVars == <<kind, tables, lock, settings, pc, loc, txw, target, ret, viewedAgo>>
pipeVars == <<checker, userInfos, task, res, resultsChan, closed, results, ppc,
              flaggedUsers, remainingUsers, validUsers, pending, signals>>
workVars == <<wpc, oldIDs, friendIDs, failedValidationIDs>>
voteVars == <<votes, voteStats, voteLock, vpc, vtx, verifications>>
lateVars == <<scan, member, runner>>
checkVars == <<pipeVars, workVars, voteVars, lateVars>>
vars == <<kind, tables, lock, settings, pc, loc, txw, target, ret, viewedAgo, trackVars, checkVars>>

\* types.User / types.Group: the columns the store's queries read.
\*   lv   last_viewed as an age        conf  confidence
\*   lu   last_updated (larger = later) rep   reputation
\*   up   upvotes                       down  downvotes
NoRow == [lv |-> -1, conf |-> 0, lu |-> 0, rep |-> 0, up |-> 0, down |-> 0]

Min(a, b) == IF a < b THEN a ELSE b

\* The row a worker builds for a newly flagged entity: LastViewed is left
\* at the zero time, votes and reputation at 0.
WorkerRow(c, u) == [lv |-> AgeCap, conf |-> c, lu |-> u, rep |-> 0, up |-> 0, down |-> 0]

\* The copy of an entity a session holds (types.ReviewUser): the row and the
\* status of the table it was read from.
NoTarget == [id |-> 0, status |-> "none", row |-> NoRow]

\* The locals of a call.  gap is the age, when this call stamped its row, of
\* the stamp of the last review claim that returned the same entity; retry
\* tells that the session's previous call failed on the same target; srcOK
\* tells that the entity was, when the transition was requested, in the
\* status the caller takes it to be in.
Loc0 == [op |-> "none", idx |-> 0, id |-> 0, ids |-> {}, row |-> NoRow, rem |-> {},
         review |-> FALSE, gap |-> AgeCap, retry |-> FALSE, srcOK |-> TRUE,
         isUpvote |-> FALSE]

EmptyTables == [st \in Statuses |-> [id \in IDs |-> NoRow]]
NoLocks == [st \in Statuses |-> [id \in IDs |-> 0]]

\* ---- the affiliation tracker's table ----

TrackUsers == 1..MaxUsers

\* A user-ID array as the number of times each user ID occurs in it.
NoUsers == [u \in TrackUsers |-> 0]
Size(users) == LET S[n \in 0..MaxUsers] == IF n = 0 THEN 0 ELSE S[n - 1] + users[n]
               IN S[MaxUsers]
Members(users) == {u \in TrackUsers : users[u] > 0}
ListOf(U) == [u \in TrackUsers |-> IF u \in U THEN 1 ELSE 0]

\* types.GroupMemberTracking: flagged_users, is_flagged, and last_appended
\* as an age.  NoTracking stands for no row.
NoTracking == [users |-> NoUsers, flagged |-> FALSE, age |-> -1]

\* The locals of a tracking call: the groupToUsers argument, the order in
\* which the rows are written, the cursor of the running statement, the
\* minimum count of a qualification call, the rows it has selected, and (a
\* history) the groups that had been returned before the call began.
TLoc0 == [op |-> "none", batch |-> << >>, order |-> << >>, cur |-> 0, min |-> 0,
          found |-> << >>, since |-> {}]

NoResult == [status |-> "none", result |-> << >>]

TrackerIdle ==
  /\ tracking = [g \in IDs |-> NoTracking]
  /\ trackLock = [g \in IDs |-> 0]
  /\ tpc = [p \in Procs |-> "idle"]
  /\ tloc = [p \in Procs |-> TLoc0]
  /\ ttxw = [p \in Procs |-> << >>]
  /\ tret = [p \in Procs |-> NoResult]
  /\ drained = {}
  /\ acked = [g \in IDs |-> {}]

\* No checker batch is running.
PipeIdle ==
  /\ checker = "friend"
  /\ userInfos = << >>
  /\ task = << >>
  /\ res = << >>
  /\ resultsChan = << >>
  /\ closed = FALSE
  /\ results = << >>
  /\ ppc = "idle"
  /\ flaggedUsers = << >>
  /\ remainingUsers = {}
  /\ validUsers = {}
  /\ pending = {}
  /\ signals = {}

\* The worker has not been started.
WorkIdle ==
  /\ wpc = "stopped"
  /\ oldIDs = << >>
  /\ friendIDs = << >>
  /\ failedValidationIDs = {}

Voters == 1..NumVoters

NoVote == [isUpvote |-> FALSE, isCorrect |-> FALSE, isVerified |-> FALSE, exists |-> FALSE]

\* Nobody has voted on the target.
VoteIdle ==
  /\ votes = [v \in Voters |-> NoVote]
  /\ voteStats = [v \in Voters |-> 0]
  /\ voteLock = [v \in Voters |-> 0]
  /\ vpc = [p \in Procs |-> "idle"]
  /\ vtx = [p \in Procs |-> << >>]
  /\ verifications = [v \in Voters |-> 0]

\* No scan call is open.
NoScan == [on |-> FALSE]

\* The member worker has not been started.
NoMember == [pc |-> "stopped"]

\* No worker is supervised.
NoRunner == [pc |-> "off"]

LateIdle ==
  /\ scan = NoScan
  /\ member = NoMember
  /\ runner = NoRunner

CheckIdle == PipeIdle /\ WorkIdle /\ VoteIdle /\ LateIdle

\* ---- the database ----

Present(st, id) == tables[st][id] # NoRow

\* A row write of a transaction: row = NoRow is a DELETE.
Write(st, id, row) == [st |-> st, id |-> id, row |-> row]

\* The tables after the writes ws (at most one per row) are applied.
Apply(tbl, ws) ==
  [st \in Statuses |-> [id \in IDs |->
     IF \E w \in ws : w.st = st /\ w.id = id
     THEN (CHOOSE w \in ws : w.st = st /\ w.id = id).row
     ELSE tbl[st][id]]]

\* ws with the write w added, replacing an earlier write of the same row.
Buffer(ws, w) == {v \in ws : ~(v.st = w.st /\ v.id = w.id)} \cup {w}

\* Session p may write row (st, id): nobody else holds its lock.
Free(p, st, id) == lock[st][id] \in {0, p}

Release(p) == [st \in Statuses |-> [id \in IDs |->
                 IF lock[st][id] = p THEN 0 ELSE lock[st][id]]]

\* The positions of a session inside a transition's transaction.
TransitionPCs == {"cf_delete", "cl_delete_flagged", "cl_delete_confirmed",
                  "bn_select_flagged", "bn_delete_confirmed", "bn_delete_flagged",
                  "tx_commit"}


\* ---- time ----

Older(a, d) == IF a < 0 THEN a ELSE Min(a + d, AgeCap)
OlderRow(r, d) == IF r = NoRow THEN r ELSE [r EXCEPT !.lv = Older(r.lv, d)]

\* d minutes pass: every timestamp in the system is that much older.
Tick(d) ==
  /\ tables' = [st \in Statuses |-> [id \in IDs |-> OlderRow(tables[st][id], d)]]
  /\ txw' = [p \in Procs |-> {[w EXCEPT !.row = OlderRow(w.row, d)] : w \in txw[p]}]
  /\ loc' = [p \in Procs |-> [loc[p] EXCEPT !.row = OlderRow(loc[p].row, d)]]
  /\ target' = [p \in Procs |-> [target[p] EXCEPT !.row = OlderRow(target[p].row, d)]]
  /\ viewedAgo' = [id \in IDs |-> Older(viewedAgo[id], d)]
  /\ UNCHANGED <<checkVars, trackVars, kind, lock, settings, pc, ret>>

\* ---- SaveFlaggedUsers / SaveFlaggedGroups ----

\* One INSERT ... ON CONFLICT (id) DO UPDATE statement outside any transaction:
\* every listed column, last_viewed and the vote counters included, is set
\* from the worker's row.
SaveFlaggedUsers(batch, rows) ==
  /\ \A id \in batch : lock["flagged"][id] = 0
  /\ tables' = [tables EXCEPT !["flagged"] =
       [id \in IDs |-> IF id \in batch THEN rows[id] ELSE tables["flagged"][id]]]
  /\ UNCHANGED <<checkVars, trackVars, kind, lock, settings, pc, loc, txw, target, ret, viewedAgo>>

\* ---- the older UserRepository.SaveFlaggedUsers ----

\* NOW() as a last_updated key: later than the key of any worker's row.
NowKey == MaxKey + 1

\* One INSERT ... ON CONFLICT (id) DO UPDATE per user.  A new row is the
\* worker's row; on a conflict the listed columns are set from the worker's
\* row, last_updated is set to NOW(), and last_reviewed is left alone.
UpsertedLegacy(tbl, batch, rows) ==
  [tbl EXCEPT !["flagged"] = [id \in IDs |->
     IF id \notin batch THEN tbl["flagged"][id]
     ELSE IF tbl["flagged"][id] = NoRow THEN rows[id]
     ELSE [tbl["flagged"][id] EXCEPT !.conf = rows[id].conf, !.lu = NowKey]]]

RepoSaveFlaggedUsers(batch, rows) ==
  /\ kind = "user"
  /\ \A id \in batch : lock["flagged"][id] = 0
  /\ tables' = UpsertedLegacy(tables, batch, rows)
  /\ UNCHANGED <<checkVars, trackVars, kind, lock, settings, pc, loc, txw, target, ret, viewedAgo>>

\* ---- GetUserToReview / GetGroupToReview ----

\* The tables in priority order for a target mode.
ReviewOrder(mode) ==
  CASE mode = "flagged"   -> <<"flagged", "confirmed", "cleared", "banned">>
    [] mode = "confirmed" -> <<"confirmed", "flagged", "cleared", "banned">>
    [] mode = "cleared"   -> <<"cleared", "flagged", "confirmed", "banned">>
    [] mode = "banned"    -> <<"banned", "flagged", "confirmed", "cleared">>

\* The filter with a window no age in the model exceeds.
CooledDownLate(row) == row.lv > ReviewCooldown + AgeCap

\* WHERE last_viewed < NOW() - INTERVAL '10 minutes'
CooledDown(row) == row.lv > ReviewCooldown

\* The query without FOR UPDATE SKIP LOCKED: locked rows are returned too.
EligibleUnlocked(st) ==
  {id \in IDs : Present(st, id) /\ CooledDown(tables[st][id])}

\* The rows of st the query can return: cooled down and, FOR UPDATE SKIP
\* LOCKED, not locked by another transaction.
Eligible(st) ==
  {id \in IDs : Present(st, id) /\ CooledDown(tables[st][id]) /\ lock[st][id] = 0}

\* ORDER BY ... LIMIT 1 over the rows S of table st: the rows that can come first.
FirstBy(st, sortBy, S) ==
  CASE sortBy = "confidence" ->
         {i \in S : \A j \in S : tables[st][j].conf <= tables[st][i].conf}
    [] sortBy = "last_updated" ->
         {i \in S : \A j \in S : tables[st][i].lu <= tables[st][j].lu}
    [] sortBy = "reputation" ->
         {i \in S : \A j \in S : tables[st][i].rep <= tables[st][j].rep}
    [] OTHER -> S

\* The table the session's claim probes: GetRandomFlaggedUser of the older
\* UserRepository knows the flagged table only.
CurTable(p) ==
  IF loc[p].op = "legacy" THEN "flagged"
  ELSE ReviewOrder(settings[p].mode)[loc[p].idx]

\* The reviewer has no target: fetchNewTarget calls GetUserToReview.
StartReview(p) ==
  /\ pc[p] = "idle" /\ target[p] = NoTarget
  /\ pc' = [pc EXCEPT ![p] = "rv_probe"]
  /\ loc' = [loc EXCEPT ![p] = [Loc0 EXCEPT !.idx = 1]]
  /\ UNCHANGED <<checkVars, trackVars, kind, tables, lock, settings, txw, target, viewedAgo>>
  /\ ret' = [ret EXCEPT ![p] = "none"]

\* The loop leaving out the model after the current one.
SkipModel(p) ==
  IF loc[p].idx + 1 < Len(ReviewOrder(settings[p].mode))
  THEN /\ pc' = [pc EXCEPT ![p] = "rv_probe"]
       /\ loc' = [loc EXCEPT ![p] = [Loc0 EXCEPT !.idx = loc[p].idx + 2]]
       /\ ret' = ret
  ELSE /\ pc' = [pc EXCEPT ![p] = "idle"]
       /\ loc' = [loc EXCEPT ![p] = Loc0]
       /\ ret' = [ret EXCEPT ![p] = "notfound"]

\* getNextToReview returned an error for the current table: the loop goes on
\* to the next model, and after the last one ErrNoUsersToReview is returned.
NextModel(p) ==
  IF loc[p].idx < Len(ReviewOrder(settings[p].mode))
  THEN /\ pc' = [pc EXCEPT ![p] = "rv_probe"]
       /\ loc' = [loc EXCEPT ![p] = [Loc0 EXCEPT !.idx = loc[p].idx + 1]]
       /\ ret' = ret
  ELSE /\ pc' = [pc EXCEPT ![p] = "idle"]
       /\ loc' = [loc EXCEPT ![p] = Loc0]
       /\ ret' = [ret EXCEPT ![p] = "notfound"]

\* getNextToReview, the SELECT ... LIMIT 1 FOR UPDATE SKIP LOCKED.
SelectForReview(p) ==
  /\ pc[p] = "rv_probe"
  /\ LET st == CurTable(p)
         picks == FirstBy(st, settings[p].sortBy, Eligible(st))
     IN IF picks = {}
        THEN NextModel(p) /\ UNCHANGED lock
        ELSE \E id \in picks :
               /\ lock' = [lock EXCEPT ![st][id] = p]
               /\ pc' = [pc EXCEPT ![p] = "rv_stamp"]
               /\ loc' = [loc EXCEPT ![p].id = id]
               /\ ret' = ret
  /\ UNCHANGED <<checkVars, trackVars, kind, tables, settings, txw, target, viewedAgo>>

\* getNextToReview, the UPDATE ... SET last_viewed = now.
StampLastViewed(p) ==
  /\ pc[p] = "rv_stamp"
  /\ LET st == CurTable(p)
         id == loc[p].id
         row == [tables[st][id] EXCEPT !.lv = 0]
     IN /\ txw' = [txw EXCEPT ![p] = Buffer(txw[p], Write(st, id, row))]
        /\ loc' = [loc EXCEPT ![p].row = row, ![p].gap = viewedAgo[id]]
  /\ pc' = [pc EXCEPT ![p] = "rv_commit"]
  /\ UNCHANGED <<checkVars, trackVars, kind, tables, lock, settings, target, ret, viewedAgo>>

\* The commit that leaves the row lock in place until somebody unlocks it.
CommitKeepingLock(p) ==
  /\ pc[p] = "rv_commit"
  /\ tables' = Apply(tables, txw[p])
  /\ lock' = lock
  /\ txw' = [txw EXCEPT ![p] = {}]
  /\ target' = [target EXCEPT ![p] =
       [id |-> loc[p].id, status |-> CurTable(p), row |-> loc[p].row]]
  /\ ret' = [ret EXCEPT ![p] = "ok"]
  /\ viewedAgo' = [viewedAgo EXCEPT ![loc[p].id] = loc[p].row.lv]
  /\ pc' = [pc EXCEPT ![p] = "idle"]
  /\ loc' = [loc EXCEPT ![p] = Loc0]
  /\ UNCHANGED <<checkVars, trackVars, kind, settings>>

\* The transaction commits and GetUserToReview returns the row.
CommitReview(p) ==
  /\ pc[p] = "rv_commit"
  /\ tables' = Apply(tables, txw[p])
  /\ lock' = Release(p)
  /\ txw' = [txw EXCEPT ![p] = {}]
  /\ target' = [target EXCEPT ![p] =
       [id |-> loc[p].id, status |-> CurTable(p), row |-> loc[p].row]]
  /\ ret' = [ret EXCEPT ![p] = "ok"]
  /\ viewedAgo' = [viewedAgo EXCEPT ![loc[p].id] = loc[p].row.lv]
  /\ pc' = [pc EXCEPT ![p] = "idle"]
  /\ loc' = [loc EXCEPT ![p] = Loc0]
  /\ UNCHANGED <<checkVars, trackVars, kind, settings>>

\* ---- UserRepository.GetRandomFlaggedUser, the older claim ----

\* WHERE last_reviewed IS NULL OR last_reviewed < NOW() - INTERVAL '5 minutes'
EligibleLegacy ==
  {id \in IDs : Present("flagged", id) /\ tables["flagged"][id].lv > LegacyCooldown
                 /\ lock["flagged"][id] = 0}

LegacySorts == {"confidence", "last_updated", "random"}

\* ORDER BY confidence DESC, ORDER BY last_updated DESC or ORDER BY RANDOM().
FirstByLegacy(sortBy, S) ==
  CASE sortBy = "confidence" ->
         {i \in S : \A j \in S : tables["flagged"][j].conf <= tables["flagged"][i].conf}
    [] sortBy = "last_updated" ->
         {i \in S : \A j \in S : tables["flagged"][j].lu <= tables["flagged"][i].lu}
    [] OTHER -> S

\* The transaction of GetRandomFlaggedUser begins.
GetRandomFlaggedUser(p) ==
  /\ pc[p] = "idle" /\ target[p] = NoTarget
  /\ pc' = [pc EXCEPT ![p] = "lg_probe"]
  /\ loc' = [loc EXCEPT ![p] = [Loc0 EXCEPT !.op = "legacy", !.idx = 1]]
  /\ ret' = [ret EXCEPT ![p] = "none"]
  /\ UNCHANGED <<checkVars, trackVars, kind, tables, lock, settings, txw, target, viewedAgo>>

\* The switch over sortBy and the SELECT ... LIMIT 1 FOR UPDATE SKIP LOCKED:
\* a sort policy the switch does not know is ErrInvalidSortBy, no row is
\* pg.ErrNoRows.
LegacySelect(p) ==
  /\ pc[p] = "lg_probe"
  /\ LET picks == FirstByLegacy(settings[p].sortBy, EligibleLegacy)
     IN IF settings[p].sortBy \notin LegacySorts \/ picks = {}
        THEN /\ pc' = [pc EXCEPT ![p] = "idle"]
             /\ loc' = [loc EXCEPT ![p] = Loc0]
             /\ ret' = [ret EXCEPT ![p] =
                  IF settings[p].sortBy \notin LegacySorts THEN "error" ELSE "notfound"]
             /\ UNCHANGED lock
        ELSE \E id \in picks :
               /\ lock' = [lock EXCEPT !["flagged"][id] = p]
               /\ pc' = [pc EXCEPT ![p] = "rv_stamp"]
               /\ loc' = [loc EXCEPT ![p].id = id]
               /\ ret' = ret
  /\ UNCHANGED <<checkVars, trackVars, kind, tables, settings, txw, target, viewedAgo>>

\* A statement or the commit of getNextToReview fails (deadline, connection):
\* the transaction is rolled back and the loop goes on to the next model.
FailReview(p) ==
  /\ pc[p] \in {"rv_probe", "rv_stamp", "rv_commit"}
  /\ lock' = Release(p)
  /\ txw' = [txw EXCEPT ![p] = {}]
  /\ NextModel(p)
  /\ UNCHANGED <<checkVars, trackVars, kind, tables, settings, target, viewedAgo>>

\* handleSkipGroup: the session drops its target.
SkipTarget(p) ==
  /\ pc[p] = "idle" /\ target[p] # NoTarget
  /\ target' = [target EXCEPT ![p] = NoTarget]
  /\ UNCHANGED <<checkVars, trackVars, kind, tables, lock, settings, pc, loc, txw, viewedAgo>>
  /\ ret' = [ret EXCEPT ![p] = "none"]

\* ---- transitions: ConfirmUser, ClearUser, RemoveBannedUsers (and the group twins) ----

\* A statement run on the transaction tx: its writes wait for the commit.
\* A statement run on the database handle instead of the transaction: its
\* writes are committed at once.
AutoExec(p, ws) ==
  /\ tables' = Apply(tables, ws)
  /\ UNCHANGED <<txw, lock>>

TxExec(p, ws) ==
  /\ txw' = [txw EXCEPT ![p] = {v \in txw[p] : \A w \in ws : ~(v.st = w.st /\ v.id = w.id)} \cup ws]
  /\ lock' = [st \in Statuses |-> [id \in IDs |->
       IF \E w \in ws : w.st = st /\ w.id = id THEN p ELSE lock[st][id]]]
  /\ tables' = tables

\* The locals of a transition on entity id that begins now.
Begin(p, op, ids, srcOK) ==
  [Loc0 EXCEPT !.op = op, !.id = CHOOSE i \in ids : TRUE, !.ids = ids,
               !.retry = (ret[p] = "error"), !.srcOK = srcOK]

\* DELETE FROM st WHERE id IN ids, on the transaction: the rows that exist.
DeleteRows(p, st, ids) ==
  /\ \A id \in ids : Present(st, id) => Free(p, st, id)
  /\ TxExec(p, {Write(st, id, NoRow) : id \in {i \in ids : Present(st, i)}})

\* INSERT INTO st ... ON CONFLICT (id) DO UPDATE SET every column = EXCLUDED.
UpsertRows(p, st, rows) ==
  /\ \A id \in DOMAIN rows : Free(p, st, id)
  /\ TxExec(p, {Write(st, id, rows[id]) : id \in DOMAIN rows})

\* ConfirmUser: the transaction begins and the reviewer's copy is upserted
\* into confirmed_users.
ConfirmUser(p) ==
  /\ pc[p] = "idle" /\ target[p] # NoTarget
  /\ LET id == target[p].id
     IN /\ UpsertRows(p, "confirmed", (id :> target[p].row))
        /\ loc' = [loc EXCEPT ![p] = Begin(p, "confirm", {id}, Present(target[p].status, id))]
  /\ pc' = [pc EXCEPT ![p] = "cf_delete"]
  /\ UNCHANGED <<checkVars, trackVars, kind, settings, target, viewedAgo>>
  /\ ret' = [ret EXCEPT ![p] = "none"]

\* ConfirmUser: DELETE FROM flagged_users WHERE id = ?
ConfirmDeleteFlagged(p) ==
  /\ pc[p] = "cf_delete"
  /\ DeleteRows(p, "flagged", loc[p].ids)
  /\ pc' = [pc EXCEPT ![p] = "tx_commit"]
  /\ UNCHANGED <<checkVars, trackVars, kind, settings, loc, target, ret, viewedAgo>>

\* ClearUser: the transaction begins and the copy is upserted into cleared_users.
ClearUser(p) ==
  /\ pc[p] = "idle" /\ target[p] # NoTarget
  /\ LET id == target[p].id
     IN /\ UpsertRows(p, "cleared", (id :> target[p].row))
        /\ loc' = [loc EXCEPT ![p] = Begin(p, "clear", {id}, Present(target[p].status, id))]
  /\ pc' = [pc EXCEPT ![p] = "cl_delete_flagged"]
  /\ UNCHANGED <<checkVars, trackVars, kind, settings, target, viewedAgo>>
  /\ ret' = [ret EXCEPT ![p] = "none"]

\* ClearUser deletes from flagged_users and then from confirmed_users;
\* ClearGroup deletes from flagged_groups only.
ClearDeleteFlagged(p) ==
  /\ pc[p] = "cl_delete_flagged"
  /\ DeleteRows(p, "flagged", loc[p].ids)
  /\ pc' = [pc EXCEPT ![p] = IF kind = "user" THEN "cl_delete_confirmed" ELSE "tx_commit"]
  /\ UNCHANGED <<checkVars, trackVars, kind, settings, loc, target, ret, viewedAgo>>

ClearDeleteConfirmed(p) ==
  /\ pc[p] = "cl_delete_confirmed"
  /\ DeleteRows(p, "confirmed", loc[p].ids)
  /\ pc' = [pc EXCEPT ![p] = "tx_commit"]
  /\ UNCHANGED <<checkVars, trackVars, kind, settings, loc, target, ret, viewedAgo>>

\* The rows of table st among ids, as a plain SELECT of the transaction sees them.
SelectRows(st, ids) ==
  LET found == {id \in ids : Present(st, id)}
  IN [id \in found |-> tables[st][id]]

\* RemoveBannedUsers: the confirmed rows among userIDs are selected and
\* upserted into banned_users.
RemoveBannedUsers(p, ids) ==
  /\ pc[p] = "idle" /\ target[p] = NoTarget
  /\ UpsertRows(p, "banned", SelectRows("confirmed", ids))
  /\ loc' = [loc EXCEPT ![p] = Begin(p, "ban", ids,
        \A i \in ids : Present("confirmed", i) \/ Present("flagged", i))]
  /\ pc' = [pc EXCEPT ![p] = "bn_select_flagged"]
  /\ UNCHANGED <<checkVars, trackVars, kind, settings, target, viewedAgo>>
  /\ ret' = [ret EXCEPT ![p] = "none"]

\* RemoveBannedUsers: the flagged rows among userIDs are selected and upserted.
BanSelectFlagged(p) ==
  /\ pc[p] = "bn_select_flagged"
  /\ UpsertRows(p, "banned", SelectRows("flagged", loc[p].ids))
  /\ pc' = [pc EXCEPT ![p] = "bn_delete_confirmed"]
  /\ UNCHANGED <<checkVars, trackVars, kind, settings, loc, target, ret, viewedAgo>>

BanDeleteConfirmed(p) ==
  /\ pc[p] = "bn_delete_confirmed"
  /\ DeleteRows(p, "confirmed", loc[p].ids)
  /\ pc' = [pc EXCEPT ![p] = "bn_delete_flagged"]
  /\ UNCHANGED <<checkVars, trackVars, kind, settings, loc, target, ret, viewedAgo>>

BanDeleteFlagged(p) ==
  /\ pc[p] = "bn_delete_flagged"
  /\ DeleteRows(p, "flagged", loc[p].ids)
  /\ pc' = [pc EXCEPT ![p] = "tx_commit"]
  /\ UNCHANGED <<checkVars, trackVars, kind, settings, loc, target, ret, viewedAgo>>

\* RunInTx commits: the writes reach the tables, the locks go, nil is returned
\* and the handler drops the session's target.
CommitTransition(p) ==
  /\ pc[p] = "tx_commit"
  /\ tables' = Apply(tables, txw[p])
  /\ lock' = Release(p)
  /\ txw' = [txw EXCEPT ![p] = {}]
  /\ ret' = [ret EXCEPT ![p] = "ok"]
  /\ target' = [target EXCEPT ![p] = NoTarget]
  /\ pc' = [pc EXCEPT ![p] = "idle"]
  /\ loc' = [loc EXCEPT ![p] = Loc0]
  /\ UNCHANGED <<checkVars, trackVars, kind, settings, viewedAgo>>

\* A statement or the commit fails: RunInTx rolls back and returns the error;
\* the session keeps its target and may try again.
FailTransition(p) ==
  /\ pc[p] \in TransitionPCs
  /\ lock' = Release(p)
  /\ txw' = [txw EXCEPT ![p] = {}]
  /\ ret' = [ret EXCEPT ![p] = "error"]
  /\ pc' = [pc EXCEPT ![p] = "idle"]
  /\ loc' = [loc EXCEPT ![p] = Loc0]
  /\ UNCHANGED <<checkVars, trackVars, kind, tables, settings, target, viewedAgo>>

\* ---- training votes: UpdateTrainingVotes ----

\* The tables updateVotesInTable is tried on, in order.
VoteOrder == <<"flagged", "confirmed">>

\* The counters of row after one more vote, as updateVotesInTable computes
\* them from the counters it has read.
Voted(row, isUpvote) ==
  LET upvotes == IF isUpvote THEN row.up + 1 ELSE row.up
      downvotes == IF isUpvote THEN row.down ELSE row.down + 1
  IN [up |-> upvotes, down |-> downvotes, rep |-> upvotes - downvotes]

\* UpdateTrainingVotes: the transaction begins.
UpdateTrainingVotes(p, isUpvote) ==
  /\ pc[p] = "idle" /\ target[p] # NoTarget
  /\ pc' = [pc EXCEPT ![p] = "vt_select"]
  /\ loc' = [loc EXCEPT ![p] = [Loc0 EXCEPT !.op = "vote", !.id = target[p].id,
       !.idx = 1, !.isUpvote = isUpvote]]
  /\ ret' = [ret EXCEPT ![p] = "none"]
  /\ UNCHANGED <<checkVars, trackVars, kind, tables, lock, settings, txw, target, viewedAgo>>

\* updateVotesInTable: SELECT upvotes, downvotes WHERE id = ?, a plain read.
\* No row in flagged: the error is dropped and confirmed is tried; no row in
\* confirmed either: the error is returned.
VoteSelect(p) ==
  /\ pc[p] = "vt_select"
  /\ LET st == VoteOrder[loc[p].idx]
         id == loc[p].id
     IN IF Present(st, id)
        THEN /\ loc' = [loc EXCEPT ![p].row = tables[st][id]]
             /\ pc' = [pc EXCEPT ![p] = "vt_update"]
             /\ UNCHANGED ret
        ELSE IF loc[p].idx < Len(VoteOrder)
        THEN /\ loc' = [loc EXCEPT ![p].idx = loc[p].idx + 1]
             /\ UNCHANGED <<pc, ret>>
        ELSE /\ loc' = [loc EXCEPT ![p] = Loc0]
             /\ pc' = [pc EXCEPT ![p] = "idle"]
             /\ ret' = [ret EXCEPT ![p] = "error"]
  /\ UNCHANGED <<checkVars, trackVars, kind, tables, lock, settings, txw, target, viewedAgo>>

\* updateVotesInTable: UPDATE ... SET upvotes = ?, downvotes = ?,
\* reputation = ? WHERE id = ?, with the values computed from the counters
\* read before.  It waits for the row's lock; a row that is gone by now is no
\* error.
VoteUpdate(p) ==
  /\ pc[p] = "vt_update"
  /\ LET st == VoteOrder[loc[p].idx]
         id == loc[p].id
         v == Voted(loc[p].row, loc[p].isUpvote)
     IN IF Present(st, id)
        THEN /\ Free(p, st, id)
             /\ TxExec(p, {Write(st, id, [tables[st][id] EXCEPT
                  !.up = v.up, !.down = v.down, !.rep = v.rep])})
        ELSE UNCHANGED <<tables, lock, txw>>
  /\ pc' = [pc EXCEPT ![p] = "vt_commit"]
  /\ UNCHANGED <<checkVars, trackVars, kind, settings, loc, target, ret, viewedAgo>>

\* RunInTx commits and nil is returned; the handler drops the session's target.
CommitVote(p) ==
  /\ pc[p] = "vt_commit"
  /\ tables' = Apply(tables, txw[p])
  /\ lock' = Release(p)
  /\ txw' = [txw EXCEPT ![p] = {}]
  /\ ret' = [ret EXCEPT ![p] = "ok"]
  /\ target' = [target EXCEPT ![p] = NoTarget]
  /\ pc' = [pc EXCEPT ![p] = "idle"]
  /\ loc' = [loc EXCEPT ![p] = Loc0]
  /\ UNCHANGED <<checkVars, trackVars, kind, settings, viewedAgo>>

\* ---- the review menu's decisions ----

\* handleConfirmGroup: a downvote in training mode, ConfirmGroup otherwise.
handleConfirmGroup(p) ==
  IF settings[p].reviewMode = "training"
  THEN UpdateTrainingVotes(p, FALSE)
  ELSE ConfirmUser(p)

\* handleClearGroup: an upvote in training mode, ClearGroup otherwise.
handleClearGroup(p) ==
  IF settings[p].reviewMode = "training"
  THEN UpdateTrainingVotes(p, TRUE)
  ELSE ClearUser(p)

\* handleConfirmWithReasonModalSubmit: ConfirmGroup with the reason entered,
\* whatever the review mode.
handleConfirmWithReasonModalSubmit(p) ==
  /\ target[p] # NoTarget
  /\ ConfirmUser(p)

\* handleSwitchReviewMode: the reviewer toggles between the two modes.
handleSwitchReviewMode(p) ==
  /\ pc[p] = "idle"
  /\ settings' = [settings EXCEPT ![p].reviewMode =
       IF settings[p].reviewMode = "training" THEN "standard" ELSE "training"]
  /\ UNCHANGED <<checkVars, trackVars, kind, tables, lock, pc, loc, txw, target, ret, viewedAgo>>

\* ---- readers: GetUserByID / GetGroupByID, CheckExistingUsers ----

\* GetUserByID locks and stamps the row only when review is set;
\* GetGroupByID has no such parameter and always does.
Claims(review) == review \/ kind = "group"

\* Only GetUserByID with review set adds the last_viewed condition.
ChecksCooldown(review) == review /\ kind = "user"

\* The transaction of GetUserByID begins.
GetUserByID(p, id, review) ==
  /\ pc[p] = "idle" /\ target[p] = NoTarget
  /\ pc' = [pc EXCEPT ![p] = "gb_probe"]
  /\ loc' = [loc EXCEPT ![p] = [Loc0 EXCEPT !.op = "byid", !.id = id,
       !.review = review, !.rem = Statuses]]
  /\ UNCHANGED <<checkVars, trackVars, kind, tables, lock, settings, txw, target, viewedAgo>>
  /\ ret' = [ret EXCEPT ![p] = "none"]

\* The SELECT of table st answers for session p's lookup.
FoundByID(p, st) ==
  LET id == loc[p].id
  IN /\ Present(st, id)
     /\ ChecksCooldown(loc[p].review) => CooledDown(tables[st][id])
     /\ Claims(loc[p].review) => lock[st][id] = 0

\* One round of the loop over modelTypes, a Go map: the next table is any of
\* those not yet tried.  A hit ends the loop; with review the row is locked
\* and its last_viewed updated.
ProbeByID(p) ==
  /\ pc[p] = "gb_probe"
  /\ \E st \in loc[p].rem :
       LET id == loc[p].id
           row == [tables[st][id] EXCEPT !.lv = 0]
       IN IF FoundByID(p, st)
          THEN IF Claims(loc[p].review)
               THEN /\ TxExec(p, {Write(st, id, row)})
                    /\ pc' = [pc EXCEPT ![p] = "gb_commit"]
                    /\ loc' = [loc EXCEPT ![p].row = row, ![p].idx = 1,
                         ![p].rem = {st}]
                    /\ UNCHANGED <<target, ret>>
               ELSE /\ pc' = [pc EXCEPT ![p] = "idle"]
                    /\ loc' = [loc EXCEPT ![p] = Loc0]
                    /\ target' = [target EXCEPT ![p] =
                         [id |-> id, status |-> st, row |-> row]]
                    /\ ret' = [ret EXCEPT ![p] = "ok"]
                    /\ UNCHANGED <<tables, lock, txw>>
          ELSE /\ IF loc[p].rem = {st}
                  THEN /\ pc' = [pc EXCEPT ![p] = "idle"]
                       /\ loc' = [loc EXCEPT ![p] = Loc0]
                       /\ ret' = [ret EXCEPT ![p] = "notfound"]
                  ELSE /\ pc' = pc
                       /\ loc' = [loc EXCEPT ![p].rem = loc[p].rem \ {st}]
                       /\ ret' = ret
               /\ UNCHANGED <<tables, lock, txw, target>>
  /\ UNCHANGED <<checkVars, trackVars, kind, settings, viewedAgo>>

\* The transaction of a claiming GetUserByID commits or fails.
CommitByID(p) ==
  /\ pc[p] = "gb_commit"
  /\ tables' = Apply(tables, txw[p])
  /\ lock' = Release(p)
  /\ txw' = [txw EXCEPT ![p] = {}]
  /\ LET st == CHOOSE t \in loc[p].rem : TRUE
     IN /\ target' = [target EXCEPT ![p] =
             [id |-> loc[p].id, status |-> st, row |-> loc[p].row]]
        /\ ret' = [ret EXCEPT ![p] = "ok"]
  /\ pc' = [pc EXCEPT ![p] = "idle"]
  /\ loc' = [loc EXCEPT ![p] = Loc0]
  /\ UNCHANGED <<checkVars, trackVars, kind, settings, viewedAgo>>

FailByID(p) ==
  /\ pc[p] = "gb_commit"
  /\ lock' = Release(p)
  /\ txw' = [txw EXCEPT ![p] = {}]
  /\ ret' = [ret EXCEPT ![p] = "error"]
  /\ pc' = [pc EXCEPT ![p] = "idle"]
  /\ loc' = [loc EXCEPT ![p] = Loc0]
  /\ UNCHANGED <<checkVars, trackVars, kind, tables, settings, target, viewedAgo>>

\* CheckExistingUsers for one ID: a single UNION statement, so one snapshot.
\* The result map keeps one status per ID.
CheckExistingUsers(p, id) ==
  /\ pc[p] = "idle"
  /\ LET found == {st \in Statuses : Present(st, id)}
     IN ret' = [ret EXCEPT ![p] = IF found = {} THEN "notfound" ELSE "ok"]
  /\ UNCHANGED <<checkVars, trackVars, kind, tables, lock, settings, pc, loc, txw, target, viewedAgo>>

\* ---- TrackingModel.AddUsersToGroupsTracking ----

\* The orders in which a Go map with the keys S can be iterated.
Orders(S) ==
  {o \in [1..Cardinality(S) -> S] : \A i, j \in 1..Cardinality(S) : o[i] = o[j] => i = j}

\* The least element of S above k, 0 when there is none.
NextFrom(S, k) ==
  IF \E g \in S : g > k
  THEN CHOOSE g \in S : g > k /\ \A h \in S : h > k => g <= h
  ELSE 0

\* ARRAY(SELECT DISTINCT unnest(a || b))
Distinct(a, b) == [u \in TrackUsers |-> IF a[u] + b[u] > 0 THEN 1 ELSE 0]

\* The transaction begins.  The tracking rows are built in the order the map
\* groupToUsers is iterated in; the group IDs to lock are sorted.
AddUsersToGroupsTracking(p, groupToUsers) ==
  /\ tpc[p] = "idle"
  /\ \E order \in Orders(DOMAIN groupToUsers) :
       tloc' = [tloc EXCEPT ![p] = [TLoc0 EXCEPT !.op = "add", !.batch = groupToUsers,
         !.order = order, !.cur = NextFrom(DOMAIN groupToUsers, 0)]]
  /\ tpc' = [tpc EXCEPT ![p] = "at_lock"]
  /\ tret' = [tret EXCEPT ![p] = NoResult]
  /\ UNCHANGED <<checkVars, storeVars, tracking, trackLock, ttxw, drained, acked>>

\* SELECT ... WHERE group_id IN (...) ORDER BY group_id FOR UPDATE: the rows
\* that exist are locked one after the other in ascending group ID; the
\* statement waits at a row another transaction holds.
LockExisting(p) ==
  /\ tpc[p] = "at_lock"
  /\ LET g == tloc[p].cur
         next == NextFrom(DOMAIN tloc[p].batch, g)
     IN /\ IF tracking[g] # NoTracking
           THEN /\ trackLock[g] \in {0, p}
                /\ trackLock' = [trackLock EXCEPT ![g] = p]
           ELSE UNCHANGED trackLock
        /\ IF next = 0
           THEN /\ tpc' = [tpc EXCEPT ![p] = "at_insert"]
                /\ tloc' = [tloc EXCEPT ![p].cur = 1]
           ELSE /\ tloc' = [tloc EXCEPT ![p].cur = next]
                /\ UNCHANGED tpc
  /\ UNCHANGED <<checkVars, storeVars, tracking, ttxw, tret, drained, acked>>

\* INSERT ... ON CONFLICT (group_id) DO UPDATE, one row of the statement: the
\* rows are written in the order of the slice.  A new row takes the
\* flagged_users array as passed; an existing row gets the distinct union and
\* keeps is_flagged.  The write waits while another transaction holds the row
\* or has inserted the key.
InsertTracking(p) ==
  /\ tpc[p] = "at_insert"
  /\ LET g == tloc[p].order[tloc[p].cur]
         existing == tracking[g]
         row == IF existing = NoTracking
                THEN [users |-> tloc[p].batch[g], flagged |-> FALSE, age |-> 0]
                ELSE [users |-> Distinct(tloc[p].batch[g], existing.users),
                      flagged |-> existing.flagged, age |-> 0]
     IN /\ trackLock[g] \in {0, p}
        /\ trackLock' = [trackLock EXCEPT ![g] = p]
        /\ ttxw' = [ttxw EXCEPT ![p] = (g :> row) @@ ttxw[p]]
  /\ IF tloc[p].cur = Len(tloc[p].order)
     THEN /\ tpc' = [tpc EXCEPT ![p] = "at_commit"]
          /\ UNCHANGED tloc
     ELSE /\ tloc' = [tloc EXCEPT ![p].cur = tloc[p].cur + 1]
          /\ UNCHANGED tpc
  /\ UNCHANGED <<checkVars, storeVars, tracking, tret, drained, acked>>

ReleaseTracking(p) == [g \in IDs |-> IF trackLock[g] = p THEN 0 ELSE trackLock[g]]

\* RunInTx commits and nil is returned.
CommitAdd(p) ==
  /\ tpc[p] = "at_commit"
  /\ tracking' = [g \in IDs |-> IF g \in DOMAIN ttxw[p] THEN ttxw[p][g] ELSE tracking[g]]
  /\ trackLock' = ReleaseTracking(p)
  /\ ttxw' = [ttxw EXCEPT ![p] = << >>]
  /\ tret' = [tret EXCEPT ![p] = [status |-> "ok", result |-> << >>]]
  /\ acked' = [g \in IDs |-> IF g \in DOMAIN tloc[p].batch
                             THEN acked[g] \cup Members(tloc[p].batch[g])
                             ELSE acked[g]]
  /\ tpc' = [tpc EXCEPT ![p] = "idle"]
  /\ tloc' = [tloc EXCEPT ![p] = TLoc0]
  /\ UNCHANGED <<checkVars, storeVars, drained>>

\* The group whose lock the running statement of p waits for, 0 when it does
\* not wait.
Waits(p) ==
  IF tpc[p] = "at_lock" /\ tracking[tloc[p].cur] # NoTracking
     /\ trackLock[tloc[p].cur] \notin {0, p}
  THEN tloc[p].cur
  ELSE IF tpc[p] = "at_insert" /\ trackLock[tloc[p].order[tloc[p].cur]] \notin {0, p}
  THEN tloc[p].order[tloc[p].cur]
  ELSE 0

Blocked(p, q) == Waits(p) # 0 /\ trackLock[Waits(p)] = q

\* Two transactions wait for each other: the database aborts one of them
\* ("deadlock detected"), RunInTx rolls it back and the call returns the error.
DeadlockAbort(p) ==
  /\ \E q \in Procs \ {p} : Blocked(p, q) /\ Blocked(q, p)
  /\ trackLock' = ReleaseTracking(p)
  /\ ttxw' = [ttxw EXCEPT ![p] = << >>]
  /\ tret' = [tret EXCEPT ![p] = [status |-> "error", result |-> << >>]]
  /\ tpc' = [tpc EXCEPT ![p] = "idle"]
  /\ tloc' = [tloc EXCEPT ![p] = TLoc0]
  /\ UNCHANGED <<checkVars, storeVars, tracking, drained, acked>>

\* ---- TrackingModel.GetAndQualifyGroupTrackings ----

\* array_length(flagged_users, 1) >= min AND is_flagged = false
Qualified(min) ==
  {g \in IDs : /\ tracking[g] # NoTracking
               /\ Size(tracking[g].users) > 0
               /\ Size(tracking[g].users) >= min
               /\ ~tracking[g].flagged}

\* The SELECT, on the database handle.  With nothing selected the call
\* returns the empty map.
GetAndQualifyGroupTrackings(p, minFlaggedUsers) ==
  /\ tpc[p] = "idle"
  /\ LET found == [g \in Qualified(minFlaggedUsers) |-> tracking[g].users]
     IN IF DOMAIN found = {}
        THEN /\ tret' = [tret EXCEPT ![p] = [status |-> "ok", result |-> << >>]]
             /\ UNCHANGED <<tpc, tloc>>
        ELSE /\ tpc' = [tpc EXCEPT ![p] = "dq_update"]
             /\ tloc' = [tloc EXCEPT ![p] = [TLoc0 EXCEPT !.op = "qualify",
                  !.min = minFlaggedUsers, !.found = found, !.since = drained]]
             /\ tret' = [tret EXCEPT ![p] = NoResult]
  /\ UNCHANGED <<checkVars, storeVars, tracking, trackLock, ttxw, drained, acked>>

\* UPDATE ... SET is_flagged = true WHERE group_id IN (...), a second
\* statement on the database handle; then the selected rows are returned.
MarkFlagged(p) ==
  /\ tpc[p] = "dq_update"
  /\ \A g \in DOMAIN tloc[p].found : tracking[g] # NoTracking => trackLock[g] = 0
  /\ tracking' = [g \in IDs |->
       IF g \in DOMAIN tloc[p].found /\ tracking[g] # NoTracking
       THEN [tracking[g] EXCEPT !.flagged = TRUE]
       ELSE tracking[g]]
  /\ tret' = [tret EXCEPT ![p] = [status |-> "ok", result |-> tloc[p].found]]
  /\ drained' = drained \cup DOMAIN tloc[p].found
  /\ tpc' = [tpc EXCEPT ![p] = "idle"]
  /\ tloc' = [tloc EXCEPT ![p] = TLoc0]
  /\ UNCHANGED <<checkVars, storeVars, trackLock, ttxw, acked>>

\* ---- TrackingModel.PurgeOldTrackings ----

\* DELETE ... WHERE last_appended < cutoff, one statement.
PurgeOldTrackings(cutoff) ==
  /\ \A g \in IDs : tracking[g].age > cutoff => trackLock[g] = 0
  /\ \E g \in IDs : tracking[g].age > cutoff
  /\ tracking' = [g \in IDs |-> IF tracking[g].age > cutoff THEN NoTracking ELSE tracking[g]]
  /\ UNCHANGED <<checkVars, storeVars, trackLock, tpc, tloc, ttxw, tret, drained, acked>>

\* d minutes pass for the tracking rows.
TrackTick(d) ==
  /\ \E g \in IDs : tracking[g] # NoTracking /\ tracking[g].age < AgeCap
  /\ tracking' = [g \in IDs |-> [tracking[g] EXCEPT !.age = Older(tracking[g].age, d)]]
  /\ ttxw' = [p \in Procs |-> [g \in DOMAIN ttxw[p] |->
       [ttxw[p][g] EXCEPT !.age = Older(ttxw[p][g].age, d)]]]
  /\ UNCHANGED <<checkVars, storeVars, trackLock, tpc, tloc, tret, drained, acked>>

\* ---- the older TrackingRepository ----

\* AddUserToGroupTracking: the transaction begins and the confirmed groups
\* are searched; a confirmed group is not tracked and nil is returned.
AddUserToGroupTracking(p, groupID, userID) ==
  /\ tpc[p] = "idle"
  /\ IF kind = "group" /\ Present("confirmed", groupID)
     THEN /\ tret' = [tret EXCEPT ![p] = [status |-> "ok", result |-> << >>]]
          /\ UNCHANGED <<tpc, tloc>>
     ELSE /\ tpc' = [tpc EXCEPT ![p] = "ru_upsert"]
          /\ tloc' = [tloc EXCEPT ![p] = [TLoc0 EXCEPT !.op = "repo_add",
               !.batch = (groupID :> ListOf({userID})), !.cur = userID]]
          /\ tret' = [tret EXCEPT ![p] = NoResult]
  /\ UNCHANGED <<checkVars, storeVars, tracking, trackLock, ttxw, drained, acked>>

\* INSERT (group_id, last_appended) ... ON CONFLICT (group_id) DO UPDATE SET
\* confirmed_users = array_append(array_remove(confirmed_users, u), u).  The
\* inserted struct has no ConfirmedUsers, so a new row has no user in it.
RepoUpsertTracking(p) ==
  /\ tpc[p] = "ru_upsert"
  /\ LET g == CHOOSE h \in DOMAIN tloc[p].batch : TRUE
         existing == tracking[g]
         row == IF existing = NoTracking
                THEN [users |-> NoUsers, flagged |-> FALSE, age |-> 0]
                ELSE [existing EXCEPT !.users = [existing.users EXCEPT ![tloc[p].cur] = 1],
                                      !.age = 0]
     IN /\ trackLock[g] \in {0, p}
        /\ trackLock' = [trackLock EXCEPT ![g] = p]
        /\ ttxw' = [ttxw EXCEPT ![p] = (g :> row) @@ ttxw[p]]
  /\ tpc' = [tpc EXCEPT ![p] = "at_commit"]
  /\ UNCHANGED <<checkVars, storeVars, tracking, tloc, tret, drained, acked>>

\* GetAndRemoveQualifiedGroupTrackings: the SELECT of the rows with
\* array_length(confirmed_users, 1) >= min.  With nothing selected the call
\* returns the empty map.
GetAndRemoveQualifiedGroupTrackings(p, minConfirmedUsers) ==
  /\ tpc[p] = "idle"
  /\ LET found == [g \in {h \in IDs : /\ tracking[h] # NoTracking
                                      /\ Size(tracking[h].users) > 0
                                      /\ Size(tracking[h].users) >= minConfirmedUsers}
                   |-> tracking[g].users]
     IN IF DOMAIN found = {}
        THEN /\ tret' = [tret EXCEPT ![p] = [status |-> "ok", result |-> << >>]]
             /\ UNCHANGED <<tpc, tloc>>
        ELSE /\ tpc' = [tpc EXCEPT ![p] = "rq_delete"]
             /\ tloc' = [tloc EXCEPT ![p] = [TLoc0 EXCEPT !.op = "remove",
                  !.min = minConfirmedUsers, !.found = found, !.since = drained]]
             /\ tret' = [tret EXCEPT ![p] = NoResult]
  /\ UNCHANGED <<checkVars, storeVars, tracking, trackLock, ttxw, drained, acked>>

\* DELETE ... WHERE group_id IN (...), a second statement; then the number of
\* users of each selected row is returned.
RemoveQualified(p) ==
  /\ tpc[p] = "rq_delete"
  /\ \A g \in DOMAIN tloc[p].found : tracking[g] # NoTracking => trackLock[g] = 0
  /\ tracking' = [g \in IDs |-> IF g \in DOMAIN tloc[p].found THEN NoTracking ELSE tracking[g]]
  /\ tret' = [tret EXCEPT ![p] = [status |-> "ok",
       result |-> [g \in DOMAIN tloc[p].found |-> Size(tloc[p].found[g])]]]
  /\ drained' = drained \cup DOMAIN tloc[p].found
  /\ tpc' = [tpc EXCEPT ![p] = "idle"]
  /\ tloc' = [tloc EXCEPT ![p] = TLoc0]
  /\ UNCHANGED <<checkVars, storeVars, trackLock, ttxw, acked>>

\* ---- the store under any interleaving of its operations ----

\* The store after the migrations, before any worker ran: empty tables, every
\* session idle.  The bot settings are one row shared by all sessions.
InitStore(kinds, sorts, modes) ==
  /\ kind \in kinds
  /\ tables = EmptyTables
  /\ lock = NoLocks
  /\ \E s \in sorts, m \in modes :
       settings = [p \in Procs |-> [sortBy |-> s, mode |-> m, reviewMode |-> "standard"]]
  /\ pc = [p \in Procs |-> "idle"]
  /\ loc = [p \in Procs |-> Loc0]
  /\ txw = [p \in Procs |-> {}]
  /\ target = [p \in Procs |-> NoTarget]
  /\ ret = [p \in Procs |-> "none"]
  /\ viewedAgo = [id \in IDs |-> AgeCap]
  /\ TrackerIdle
  /\ CheckIdle

ReviewStep(p) ==
  \/ StartReview(p)
  \/ SelectForReview(p)
  \/ StampLastViewed(p)
  \/ CommitReview(p)

TransitionStep(p) ==
  \/ ConfirmUser(p)
  \/ ConfirmDeleteFlagged(p)
  \/ ClearUser(p)
  \/ ClearDeleteFlagged(p)
  \/ ClearDeleteConfirmed(p)

BanStep(p, S) ==
  \/ \E id \in S : RemoveBannedUsers(p, {id})
  \/ BanSelectFlagged(p)
  \/ BanDeleteConfirmed(p)
  \/ BanDeleteFlagged(p)

ReadStep(p, S, R) ==
  \/ \E id \in S, review \in R : GetUserByID(p, id, review)
  \/ ProbeByID(p)
  \/ CommitByID(p)
  \/ \E id \in S : CheckExistingUsers(p, id)

SaveStep(S, R) ==
  \E batch \in SUBSET S \ {{}} : \E rows \in [batch -> R] :
    SaveFlaggedUsers(batch, rows)

\* The entities the workers and readers of Spec deal with.
StoreIDs == {1}

\* The store of either kind under the default settings: random sort, flagged target.
Init == InitStore(Kinds, {"random"}, {"flagged"})

\* The callers of the store: the reviewers' sessions of the bot, and a worker
\* that moves the users the platform banned to the banned table.  The
\* flagging workers' only call, SaveFlaggedUsers, is one statement.
Purger == NumProcs
Reviewers == Procs \ {Purger}

Next ==
  \/ Tick(AgeCap)
  \/ SaveStep(StoreIDs, {WorkerRow(1, 1)})
  \/ BanStep(Purger, StoreIDs)
  \/ \E p \in Reviewers :
       \/ ReviewStep(p)
       \/ FailReview(p)
       \/ SkipTarget(p)
       \/ TransitionStep(p)
  \/ \E p \in Procs : CommitTransition(p) \/ FailTransition(p)

Spec == Init /\ [][Next]_vars

\* ---- status exclusivity ----

InTables(id) == {st \in Statuses : Present(st, id)}

\* C1: every entity is in at most one of the four status tables, whatever
\* the store operations did and however they interleaved.
StatusExclusive == \A id \in IDs : Cardinality(InTables(id)) <= 1

\* C2: a transition requested for an entity that is not in the status the
\* caller takes it to be in does not return success.
StaleTransitionRejected ==
  [][\A p \in Procs :
       (pc[p] = "tx_commit" /\ ~loc[p].srcOK) => ret'[p] # "ok"]_vars

\* ---- the cooldown between two claims of one entity ----

\* C5: a review claim returns an entity only if the last review claim that
\* returned the same entity stamped it at least ReviewCooldown minutes
\* before this one did.
ClaimSpacing ==
  [][\A p \in Procs :
       (pc[p] = "rv_commit" /\ ret'[p] = "ok") => loc[p].gap >= ReviewCooldown]_vars

\* ---- a failing transition ----

\* Every caller is about to move an entity of its own out of its source
\* table: each reviewer holds a target it claimed from the flagged table, the
\* purger's user is flagged or confirmed.
Own(p) == p
ClaimedRow == [lv |-> 0, conf |-> 1, lu |-> 1, rep |-> 0, up |-> 0, down |-> 0]

InitAtomic ==
  /\ kind \in Kinds
  /\ \E src \in {"flagged", "confirmed"} :
       tables = [st \in Statuses |-> [id \in IDs |->
         IF id \in {Own(p) : p \in Procs} /\ st = (IF id = Own(Purger) THEN src ELSE "flagged")
         THEN ClaimedRow ELSE NoRow]]
  /\ lock = NoLocks
  /\ settings = [p \in Procs |-> [sortBy |-> "random", mode |-> "flagged", reviewMode |-> "standard"]]
  /\ pc = [p \in Procs |-> "idle"]
  /\ loc = [p \in Procs |-> Loc0]
  /\ txw = [p \in Procs |-> {}]
  /\ target = [p \in Procs |->
       IF p \in Reviewers /\ Own(p) \in IDs
       THEN [id |-> Own(p), status |-> "flagged", row |-> ClaimedRow] ELSE NoTarget]
  /\ ret = [p \in Procs |-> "none"]
  /\ viewedAgo = [id \in IDs |-> 0]
  /\ TrackerIdle
  /\ CheckIdle

NextAtomic ==
  \/ Tick(TickStep)
  \/ BanStep(Purger, {Own(Purger)})
  \/ \E p \in Reviewers : TransitionStep(p)
  \/ \E p \in Procs : CommitTransition(p) \/ FailTransition(p)

SpecAtomic == InitAtomic /\ [][NextAtomic]_vars

Dest(op) == CASE op = "confirm" -> "confirmed" [] op = "clear" -> "cleared"
              [] OTHER -> "banned"

\* The step left entity id of p's transition as it was before the transition:
\* in its source table only, with the fields it had.
Untouched(p, id) ==
  IF target[p] # NoTarget
  THEN /\ InTables(id)' = {target[p].status}
       /\ tables'[target[p].status][id] = target'[p].row
  ELSE /\ InTables(id)' = InTables(id)
       /\ \E st \in {"flagged", "confirmed"} : InTables(id) = {st}

\* The step moved entity id of p's transition: it is in the destination table
\* only, with the fields the transition carried.
Moved(p, id) ==
  /\ InTables(id)' = {Dest(loc[p].op)}
  /\ tables'[Dest(loc[p].op)][id] =
       IF target[p] # NoTarget THEN target[p].row
       ELSE tables[CHOOSE st \in Statuses : Present(st, id)][id]

\* C3: while a transition of an entity out of its source table has not
\* committed, and after it failed at any statement, the entity is in its
\* pre-transition table only, with its pre-transition fields; the commit,
\* of a first attempt or of a retry, leaves it in the destination table only.
TransitionAtomic ==
  [][\A p \in Procs :
       (pc[p] \in TransitionPCs /\ loc[p].srcOK) =>
         \A id \in loc[p].ids :
           IF ret'[p] = "ok" THEN Moved(p, id) ELSE Untouched(p, id)]_vars

\* A retry of a transition that failed stands right before its commit.
RetryReady ==
  \E p \in Procs : pc[p] = "tx_commit" /\ loc[p].retry /\ loc[p].srcOK /\ txw[p] # {}

\* ---- concurrent review claims of one row ----

\* The rows of table st a review claim may take: last viewed more than the
\* cooldown ago and locked by no transaction.
Claimable(st) ==
  {id \in IDs : Present(st, id) /\ tables[st][id].lv > ReviewCooldown /\ lock[st][id] = 0}

\* Entity 1 is the only claimable row; the other entities are absent or were
\* viewed just now.  All sessions use the same sort policy and target mode.
InitClaim ==
  /\ kind \in Kinds
  /\ \E place \in [IDs -> Statuses \cup {"none"}] :
       /\ place[1] # "none"
       /\ tables = [st \in Statuses |-> [id \in IDs |->
            IF place[id] # st THEN NoRow
            ELSE [ClaimedRow EXCEPT !.lv = IF id = 1 THEN AgeCap ELSE 0]]]
  /\ lock = NoLocks
  /\ \E s \in SortPolicies, m \in TargetModes :
       settings = [p \in Procs |-> [sortBy |-> s, mode |-> m, reviewMode |-> "standard"]]
  /\ pc = [p \in Procs |-> "idle"]
  /\ loc = [p \in Procs |-> Loc0]
  /\ txw = [p \in Procs |-> {}]
  /\ target = [p \in Procs |-> NoTarget]
  /\ ret = [p \in Procs |-> "none"]
  /\ viewedAgo = [id \in IDs |-> AgeCap]
  /\ TrackerIdle
  /\ CheckIdle

NextClaim == \E p \in Procs : ReviewStep(p)

SpecClaim == InitClaim /\ [][NextClaim]_vars

\* Session p has claimed entity id, or has been returned it.
Holds(p, id) ==
  \/ pc[p] \in {"rv_stamp", "rv_commit"} /\ loc[p].id = id
  \/ target[p].id = id

KeyedRow(s, lv, k) ==
  [lv |-> lv,
   conf |-> IF s = "confidence" THEN k ELSE 1,
   lu |-> IF s = "last_updated" THEN k ELSE 1,
   rep |-> IF s = "reputation" THEN k ELSE 1,
   up |-> IF s = "reputation" THEN k ELSE 1, down |-> 0]

\* Every entity is in at most one table, viewed just now or long ago, with
\* any key in the column the sessions' sort policy orders by.
InitReview ==
  /\ kind = "user"
  /\ \E s \in SortPolicies, m \in TargetModes :
       /\ settings = [p \in Procs |-> [sortBy |-> s, mode |-> m, reviewMode |-> "standard"]]
       /\ \E place \in [IDs -> Statuses \cup {"none"}],
             lvs \in [IDs -> {0, AgeCap}], ks \in [IDs -> Keys] :
            tables = [st \in Statuses |-> [id \in IDs |->
              IF place[id] = st THEN KeyedRow(s, lvs[id], ks[id]) ELSE NoRow]]
  /\ lock = NoLocks
  /\ pc = [p \in Procs |-> "idle"]
  /\ loc = [p \in Procs |-> Loc0]
  /\ txw = [p \in Procs |-> {}]
  /\ target = [p \in Procs |-> NoTarget]
  /\ ret = [p \in Procs |-> "none"]
  /\ viewedAgo = [id \in IDs |-> AgeCap]
  /\ TrackerIdle
  /\ CheckIdle

NextReview == \E p \in Procs : ReviewStep(p)

SpecReview == InitReview /\ [][NextReview]_vars

Place(p) ==
  IF pc[p] \in {"rv_probe", "rv_stamp", "rv_commit"} THEN loc[p].idx
  ELSE IF ret[p] = "ok"
       THEN CHOOSE i \in 1..4 : ReviewOrder(settings[p].mode)[i] = target[p].status
       ELSE 1

NoLater(s, a, b) ==
  CASE s = "confidence" -> a.conf >= b.conf
    [] s = "last_updated" -> a.lu <= b.lu
    [] s = "reputation" -> a.rep <= b.rep
    [] OTHER -> TRUE

\* C10: the row a review claim selected from a table comes, under the
\* session's sort policy (highest confidence, oldest last update, lowest
\* reputation), no later than any row of that table still claimable.
BestFirst ==
  \A p \in Procs : pc[p] \in {"rv_stamp", "rv_commit"} =>
    \A j \in Claimable(CurTable(p)) :
      NoLater(settings[p].sortBy, tables[CurTable(p)][loc[p].id], tables[CurTable(p)][j])

\* ---- the older claim, GetRandomFlaggedUser ----

\* Every entity is flagged or unknown, viewed just now or long ago, with any
\* key in the column the sessions' sort policy orders by.
InitLegacy ==
  /\ kind = "user"
  /\ \E s \in SortPolicies :
       /\ settings = [p \in Procs |-> [sortBy |-> s, mode |-> "flagged", reviewMode |-> "standard"]]
       /\ \E place \in [IDs -> {"flagged", "none"}],
             lvs \in [IDs -> {0, AgeCap}], ks \in [IDs -> Keys] :
            tables = [st \in Statuses |-> [id \in IDs |->
              IF place[id] = st THEN KeyedRow(s, lvs[id], ks[id]) ELSE NoRow]]
  /\ lock = NoLocks
  /\ pc = [p \in Procs |-> "idle"]
  /\ loc = [p \in Procs |-> Loc0]
  /\ txw = [p \in Procs |-> {}]
  /\ target = [p \in Procs |-> NoTarget]
  /\ ret = [p \in Procs |-> "none"]
  /\ viewedAgo = [id \in IDs |-> AgeCap]
  /\ TrackerIdle
  /\ CheckIdle

NextLegacy ==
  \E p \in Procs :
    \/ GetRandomFlaggedUser(p)
    \/ LegacySelect(p)
    \/ StampLastViewed(p)
    \/ CommitReview(p)
    \/ SkipTarget(p)

SpecLegacy == InitLegacy /\ [][NextLegacy]_vars

\* ---- a claimed row that is never transitioned ----

\* Entity 1 is flagged and was claimed just now by a reviewer who skipped
\* it; the other entities are unknown, flagged or confirmed and were viewed
\* long ago.
InitLive ==
  /\ kind = "user"
  /\ \E s \in SortPolicies :
       /\ settings = [p \in Procs |-> [sortBy |-> s, mode |-> "flagged", reviewMode |-> "standard"]]
       /\ \E place \in [IDs -> {"none", "flagged", "confirmed"}], ks \in [IDs -> Keys] :
            /\ place[1] = "flagged" /\ ks[1] = 1
            /\ tables = [st \in Statuses |-> [id \in IDs |->
                 IF place[id] = st
                 THEN KeyedRow(s, IF id = 1 THEN 0 ELSE AgeCap, ks[id]) ELSE NoRow]]
  /\ lock = NoLocks
  /\ pc = [p \in Procs |-> "idle"]
  /\ loc = [p \in Procs |-> Loc0]
  /\ txw = [p \in Procs |-> {}]
  /\ target = [p \in Procs |-> NoTarget]
  /\ ret = [p \in Procs |-> "none"]
  /\ viewedAgo = [id \in IDs |-> IF id = 1 THEN 0 ELSE AgeCap]
  /\ TrackerIdle
  /\ CheckIdle

NextLive ==
  \/ Tick(TickStep)
  \/ \E p \in Reviewers : ReviewStep(p) \/ SkipTarget(p)

\* Time passes, and the reviewers keep skipping and requesting.
SpecLive ==
  /\ InitLive /\ [][NextLive]_vars
  /\ WF_vars(Tick(TickStep))
  /\ \A p \in Reviewers : WF_vars(ReviewStep(p)) /\ WF_vars(SkipTarget(p))

\* Entity 1 has been returned by a review claim again, to a reviewer who
\* has not skipped it yet.
ReturnedAgain == \E p \in Procs : ret[p] = "ok" /\ target[p].id = 1

\* C6 as stated: every time the row, never transitioned, has been claimed,
\* it is eventually returned again when callers keep requesting.
EventuallyReturnedAgain == []<>ReturnedAgain

\* A claimable row that a review claim takes before entity 1: it is in a
\* table earlier in the priority order, or in the same table and no later
\* under the sort policy.
Ahead ==
  \E id \in IDs \ {1} : \E st \in Statuses :
    /\ id \in Claimable(st)
    /\ \/ st = "flagged" /\ NoLater(settings[1].sortBy, tables[st][id], tables["flagged"][1])
       \/ st # "flagged" /\ ReviewOrder(settings[1].mode)[1] = st

\* C6, amended: every time the row has been claimed it is eventually
\* returned again, with no unlock in between, unless again and again another
\* claimable row comes before it.
ReturnedAgainUnlessOutranked == []<>ReturnedAgain \/ []<>Ahead

\* Entity 1 cooled down, with no unlock, and was returned a second time.
SecondClaim == ReturnedAgain /\ lock = NoLocks /\ tables["flagged"][1].lv = 0

\* ---- a lookup by ID beside a transition ----

\* Entity 1 is flagged and is the target of every reviewer; the last caller
\* looks it up by ID, never for review, while the reviewers confirm or
\* clear it.
Reader == NumProcs

InitRead ==
  /\ kind \in Kinds
  /\ tables = [st \in Statuses |-> [id \in IDs |->
       IF st = "flagged" /\ id = 1 THEN ClaimedRow ELSE NoRow]]
  /\ lock = NoLocks
  /\ settings = [p \in Procs |-> [sortBy |-> "random", mode |-> "flagged", reviewMode |-> "standard"]]
  /\ pc = [p \in Procs |-> "idle"]
  /\ loc = [p \in Procs |-> Loc0]
  /\ txw = [p \in Procs |-> {}]
  /\ target = [p \in Procs |->
       IF p # Reader THEN [id |-> 1, status |-> "flagged", row |-> ClaimedRow]
       ELSE NoTarget]
  /\ ret = [p \in Procs |-> "none"]
  /\ viewedAgo = [id \in IDs |-> 0]
  /\ TrackerIdle
  /\ CheckIdle

NextRead ==
  \/ \E p \in Procs \ {Reader} : TransitionStep(p)
  \/ \E p \in Procs : CommitTransition(p) \/ FailTransition(p)
  \/ ReadStep(Reader, {1}, {FALSE})
  \/ FailByID(Reader)
  \/ SkipTarget(Reader)

SpecRead == InitRead /\ [][NextRead]_vars

\* C7: entity 1 is in a status table throughout, so a lookup of it by ID,
\* whatever transition of it runs beside the lookup, finds it.
LookupFindsEntity ==
  InTables(1) # {} => ret[Reader] # "notfound"

\* ---- a lookup by ID that is not for review ----

\* Session p takes a step of a lookup by ID that was not asked to review.
PlainLookupStep(p) ==
  /\ loc[p].op = "byid" /\ ~loc[p].review
  /\ <<pc[p], loc[p]>>' # <<pc[p], loc[p]>>

\* C11: a lookup by ID with forReview false is a plain read: none of its
\* steps takes a row lock or writes a row, so last_viewed stays as it was.
PlainLookupIsPlain ==
  [][\A p \in Procs : PlainLookupStep(p) =>
       /\ \A st \in Statuses, id \in IDs : lock'[st][id] = p => lock[st][id] = p
       /\ txw'[p] = {}]_vars

\* ---- training feedback ----

\* Entity 1 is flagged and is the target of every session; each session is
\* in standard or in training mode.
InitVote ==
  /\ kind \in Kinds
  /\ tables = [st \in Statuses |-> [id \in IDs |->
       IF st = "flagged" /\ id = 1 THEN ClaimedRow ELSE NoRow]]
  /\ lock = NoLocks
  /\ settings \in [Procs -> {[sortBy |-> "random", mode |-> "flagged", reviewMode |-> m] :
                              m \in {"standard", "training"}}]
  /\ pc = [p \in Procs |-> "idle"]
  /\ loc = [p \in Procs |-> Loc0]
  /\ txw = [p \in Procs |-> {}]
  /\ target = [p \in Procs |-> [id |-> 1, status |-> "flagged", row |-> ClaimedRow]]
  /\ ret = [p \in Procs |-> "none"]
  /\ viewedAgo = [id \in IDs |-> 0]
  /\ TrackerIdle
  /\ CheckIdle

VoteStep(p) ==
  \/ VoteSelect(p)
  \/ VoteUpdate(p)
  \/ CommitVote(p)

NextVote ==
  \E p \in Procs :
    \/ handleConfirmGroup(p)
    \/ handleClearGroup(p)
    \/ handleConfirmWithReasonModalSubmit(p)
    \/ handleSwitchReviewMode(p)
    \/ VoteStep(p)
    \/ ConfirmDeleteFlagged(p)
    \/ ClearDeleteFlagged(p)
    \/ ClearDeleteConfirmed(p)
    \/ CommitTransition(p)

SpecVote == InitVote /\ [][NextVote]_vars

\* C12: an UpdateTrainingVotes call that returns nil has raised the matching
\* counter of the row it read by exactly one, left the other counter as it
\* was, and left reputation equal to upvotes minus downvotes.
VoteRaisesByOne ==
  [][\A p \in Procs : (pc[p] = "vt_commit" /\ ret'[p] = "ok") =>
       LET st == VoteOrder[loc[p].idx]
           before == tables[st][loc[p].id]
           after == tables'[st][loc[p].id]
       IN /\ after.up = before.up + (IF loc[p].isUpvote THEN 1 ELSE 0)
          /\ after.down = before.down + (IF loc[p].isUpvote THEN 0 ELSE 1)
          /\ after.rep = after.up - after.down]_vars

\* C13: a call of a session in training mode that returns nil leaves every
\* entity in the status tables it was in.
TrainingKeepsStatus ==
  [][\A p \in Procs :
       (settings[p].reviewMode = "training" /\ pc[p] # "idle" /\ ret'[p] = "ok") =>
         \A id \in IDs : InTables(id)' = InTables(id)]_vars

\* ---- saving the same flagged entities twice ----

\* The rows the workers build.
WorkerRows == {WorkerRow(c, u) : c \in Keys, u \in Keys}

\* The workers save batches of flagged entities, through the model or through
\* the older repository, while a reviewer claims and skips them.
NextSave ==
  \/ SaveStep(IDs, WorkerRows)
  \/ \E batch \in SUBSET IDs \ {{}} : \E rows \in [batch -> WorkerRows] :
       RepoSaveFlaggedUsers(batch, rows)
  \/ \E p \in Reviewers : ReviewStep(p) \/ SkipTarget(p)

SpecSave == Init /\ [][NextSave]_vars

\* The tables after SaveFlaggedUsers(batch, rows) on the tables tbl.
Upserted(tbl, batch, rows) ==
  [tbl EXCEPT !["flagged"] =
     [id \in IDs |-> IF id \in batch THEN rows[id] ELSE tbl["flagged"][id]]]

\* C14: saving a batch of flagged entities is idempotent: when a save of
\* (batch, rows) has just been applied, applying the same save once more
\* leaves the four tables as they are.
BulkUpsertIdempotent ==
  [][\A batch \in SUBSET IDs \ {{}} : \A rows \in [batch -> WorkerRows] :
       /\ (kind = "user" /\ tables' = UpsertedLegacy(tables, batch, rows))
            => UpsertedLegacy(tables', batch, rows) = tables'
       /\ tables' = Upserted(tables, batch, rows)
            => Upserted(tables', batch, rows) = tables']_vars

\* ---- the affiliation tracker under concurrent callers ----

\* The workers pass lists of one or two of the first two users, one of them
\* with a user ID repeated, for any non-empty set of groups.
UserLists == {ListOf({1}), ListOf({2}), ListOf({1, 2}), [ListOf({1}) EXCEPT ![1] = 2]}
Batches == UNION {[G -> UserLists] : G \in SUBSET IDs \ {{}}}

\* The minimum count the qualification calls pass, and the age beyond which
\* the purge deletes.
MinFlaggedUsers == 2
PurgeCutoff == TickStep

InitTrack == InitStore({"group"}, {"random"}, {"flagged"})

AddStep(p) ==
  \/ \E b \in Batches : AddUsersToGroupsTracking(p, b)
  \/ LockExisting(p)
  \/ InsertTracking(p)
  \/ CommitAdd(p)
  \/ DeadlockAbort(p)

NextTrack == \E p \in Procs : AddStep(p)

SpecTrack == InitTrack /\ [][NextTrack]_vars

\* ---- qualification, purge and further signals ----

\* One worker records signals for group 1, another qualifies groups, and the
\* purge deletes the rows not appended to lately.
Recorder == 1
Qualifier == NumProcs

QualifyStep(p) ==
  \/ GetAndQualifyGroupTrackings(p, MinFlaggedUsers)
  \/ MarkFlagged(p)

NextLatch ==
  \/ \E b \in [{1} -> UserLists] : AddUsersToGroupsTracking(Recorder, b)
  \/ LockExisting(Recorder)
  \/ InsertTracking(Recorder)
  \/ CommitAdd(Recorder)
  \/ QualifyStep(Qualifier)
  \/ PurgeOldTrackings(PurgeCutoff)
  \/ TrackTick(AgeCap)

SpecLatch == InitTrack /\ [][NextLatch]_vars

\* C15: a qualification call never returns a group that a call which had
\* returned before this one began has returned already.
ReturnedOnce ==
  [][\A p \in Procs : (tpc[p] = "dq_update" /\ tpc'[p] = "idle") =>
       DOMAIN tloc[p].found \cap tloc[p].since = {}]_vars

\* C17: a group's tracking set holds each user ID at most once.
NoDuplicateUser ==
  \A g \in IDs : \A u \in TrackUsers : tracking[g].users[u] <= 1

\* C19: no two tracking calls ever wait for each other's rows.
NoDeadlock ==
  \A p, q \in Procs : ~(Blocked(p, q) /\ Blocked(q, p))

\* ---- signals for one group through the older repository ----

\* The minimum count of the scenario: one less than the users there are.
QualifyCount == MaxUsers - 1

\* Every session records one user at a time for group 1; the last session
\* also asks for the qualified groups.
NextRepoTrack ==
  \/ \E p \in Procs :
       \/ \E u \in TrackUsers : AddUserToGroupTracking(p, 1, u)
       \/ RepoUpsertTracking(p)
       \/ CommitAdd(p)
  \/ GetAndRemoveQualifiedGroupTrackings(Qualifier, QualifyCount)
  \/ RemoveQualified(Qualifier)

SpecRepoTrack == InitTrack /\ [][NextRepoTrack]_vars

\* C16: a call that records for a group a user an earlier call has recorded
\* for it already leaves the size of the group's tracking set as it was.
RepeatKeepsSize ==
  [][\A p \in Procs : \A g \in IDs :
       (/\ tpc[p] = "at_commit" /\ tpc'[p] = "idle"
        /\ g \in DOMAIN tloc[p].batch
        /\ Members(tloc[p].batch[g]) \subseteq acked[g]
        /\ g \notin drained) =>
         Size(tracking'[g].users) = Size(tracking[g].users)]_vars

\* C18: while no group has been handed out, every user of every tracking
\* call that has returned nil is in the group's tracking set.
NoLostSignal ==
  \A g \in IDs : g \notin drained =>
    \A u \in acked[g] : tracking[g].users[u] >= 1

\* The qualification call of session p makes its selection in this step.
Selects(p) ==
  /\ tpc[p] = "idle"
  /\ \/ tpc'[p] \in {"dq_update", "rq_delete"}
     \/ tpc'[p] = "idle" /\ tret'[p] # tret[p]

\* The groups the qualification call of p has selected in this step.
Selected(p) == IF tpc'[p] = "idle" THEN {} ELSE DOMAIN tloc'[p].found

\* C20: with no other call running, the first qualification call after
\* QualifyCount distinct users were recorded for group 1 selects group 1 with
\* exactly these users, and the qualification call after one more user was
\* recorded selects nothing.
ScenarioLatch ==
  [][(Selects(Qualifier) /\ \A p \in Procs \ {Qualifier} : tpc[p] = "idle") =>
       /\ (drained = {} /\ Cardinality(acked[1]) = QualifyCount) =>
            /\ Selected(Qualifier) = {1}
            /\ Members(tloc'[Qualifier].found[1]) = acked[1]
       /\ (drained = {1} /\ Cardinality(acked[1]) = QualifyCount + 1) =>
            Selected(Qualifier) = {}]_vars

\* ---- the confidence scorer of the friend checker ----

\* Bounds of the checker batches.
NumProfiles == 2
MaxFriends == 10
MaxGroups == 3

\* "if len(userInfo.Friends) < 3", "if confidence >= 0.4" (in hundredths),
\* "if len(flaggedGroupIDs) >= 2".
MinFriends == 3
FlagThreshold == 40
MinFlaggedGroups == 2

ProfileIDs == 1..NumProfiles
CheckGroups == 1..MaxGroups

\* Account ages, in days, on both sides of every tier of calculateAgeWeight.
AgeDays == {10, 29, 30, 179, 180, 364, 365, 729, 730}

Max(a, b) == IF a >= b THEN a ELSE b

\* calculateInappropriateWeight with the weight of the third tier mistyped.
calculateInappropriateWeightTypo(confirmedCount, flaggedCount) ==
  LET totalWeight2 == 2 * confirmedCount + flaggedCount IN
  IF confirmedCount >= 8 \/ totalWeight2 >= 24 THEN 10
  ELSE IF confirmedCount >= 6 \/ totalWeight2 >= 18 THEN 8
  ELSE IF confirmedCount >= 4 \/ totalWeight2 >= 12 THEN 2
  ELSE IF confirmedCount >= 2 \/ totalWeight2 >= 6 THEN 4
  ELSE IF confirmedCount >= 1 \/ totalWeight2 >= 2 THEN 2
  ELSE 0

\* The weights are kept in tenths.  totalWeight = confirmedCount +
\* flaggedCount * 0.5 is compared doubled.
calculateInappropriateWeight(confirmedCount, flaggedCount) ==
  LET totalWeight2 == 2 * confirmedCount + flaggedCount IN
  IF confirmedCount >= 8 \/ totalWeight2 >= 24 THEN 10
  ELSE IF confirmedCount >= 6 \/ totalWeight2 >= 18 THEN 8
  ELSE IF confirmedCount >= 4 \/ totalWeight2 >= 12 THEN 6
  ELSE IF confirmedCount >= 2 \/ totalWeight2 >= 6 THEN 4
  ELSE IF confirmedCount >= 1 \/ totalWeight2 >= 2 THEN 2
  ELSE 0

\* calculateAgeWeight without its tiers.
calculateAgeWeightFlat(accountAge) == 10

calculateAgeWeight(accountAge) ==
  IF accountAge < 30 THEN 10
  ELSE IF accountAge < 180 THEN 8
  ELSE IF accountAge < 365 THEN 6
  ELSE IF accountAge < 2 * 365 THEN 4
  ELSE 2

\* The denominator of the confidence calculateConfidence returns.
ConfidenceDen(totalFriends) == 200 * Max(totalFriends, 1)

\* calculateConfidence with the flagged friends at full weight in the ratio.
calculateConfidenceFullFlagged(confirmedCount, flaggedCount, totalFriends, accountAge) ==
  LET n == Max(totalFriends, 1)
      ratio == IF totalFriends > 0
               THEN 40 * Min(2 * (confirmedCount + flaggedCount), 2 * totalFriends)
               ELSE 0
  IN  10 * calculateInappropriateWeight(confirmedCount, flaggedCount) * n + ratio
        + 2 * calculateAgeWeight(accountAge) * n

\* The confidence is a rational: calculateConfidence is its numerator over
\* ConfidenceDen(totalFriends).  Over 200 * totalFriends the three terms are
\*   inappropriateWeight * 0.50      = 10 * weight(tenths) * totalFriends
\*   min(total / friends, 1) * 0.40  = 40 * min(2 * total, 2 * totalFriends)
\*   ageWeight * 0.10                = 2 * weight(tenths) * totalFriends
\* and the ratio term is left out when totalFriends = 0.
calculateConfidence(confirmedCount, flaggedCount, totalFriends, accountAge) ==
  LET n == Max(totalFriends, 1)
      inappropriateWeight == calculateInappropriateWeight(confirmedCount, flaggedCount)
      totalInappropriate2 == 2 * confirmedCount + flaggedCount
      ratio == IF totalFriends > 0
               THEN 40 * Min(totalInappropriate2, 2 * totalFriends)
               ELSE 0
      ageWeight == calculateAgeWeight(accountAge)
  IN  10 * inappropriateWeight * n + ratio + 2 * ageWeight * n

\* math.Round(confidence*100) / 100, in hundredths (the confidence is >= 0).
Rounded(confidence, totalFriends) ==
  LET n == Max(totalFriends, 1) IN (confidence + n) \div (2 * n)

\* "confidence >= 0.4".  The float64 sum of a confidence that is 0.4 exactly
\* may fall below 0.4 (0.6*0.5 + 0.25*0.4 + ... = 0.39999999999999997), so
\* the comparison of an exact tie can go either way.
ExceedsThreshold(confidence, totalFriends) ==
  LET bar == 2 * FlagThreshold * Max(totalFriends, 1) IN
  IF confidence = bar THEN BOOLEAN ELSE {confidence > bar}

\* ---- ProcessUsers: one goroutine per profile, results over a channel ----

Checkers == {"friend", "group"}

\* (user, autoFlagged, err) of one task, with the counts it was decided on.
\* user is 0 for nil; confidence is the Confidence field of the flagged
\* user, a pair <<numerator, denominator>>.
NoRes == [status |-> "none", user |-> 0, autoFlagged |-> FALSE,
          confirmed |-> 0, flagged |-> 0, total |-> 0, score |-> 0,
          confidence |-> <<0, 1>>]

NotFlagged == [NoRes EXCEPT !.status = "ok"]
Errored == [NoRes EXCEPT !.status = "error"]

\* The fetched profiles: the number of friends, the groups, the account age.
Infos(maxFriends, groupSets, ages) ==
  [friends : 0..maxFriends, groups : groupSets, age : ages]

\* ProcessUsers is called with the profiles of a batch of distinct users:
\* it makes the channel and starts one goroutine per profile.
ProcessUsers(infos) ==
  /\ ppc = "idle"
  /\ checker \in Checkers
  /\ userInfos' = infos
  /\ task' = [id \in DOMAIN infos |-> "run"]
  /\ res' = [id \in DOMAIN infos |-> NoRes]
  /\ resultsChan' = << >>
  /\ closed' = FALSE
  /\ results' = << >>
  /\ ppc' = "collect"
  /\ UNCHANGED <<storeVars, trackVars, lateVars, workVars, voteVars, checker, flaggedUsers, remainingUsers, validUsers,
                 pending, signals>>

\* The same check with the bound off by one.
TooFewFriendsLax(info) == info.friends < MinFriends - 1

\* "Skip users with very few friends to avoid false positives".
TooFewFriends(info) == info.friends < MinFriends

\* The goroutine of profile id runs processUserFriends.  CheckExistingUsers
\* answers with the statuses the friends have in the database at that
\* moment, or fails.
processUserFriends(id) ==
  /\ checker = "friend"
  /\ id \in DOMAIN task /\ task[id] = "run"
  /\ LET info == userInfos[id] IN
     IF TooFewFriends(info)
     THEN res' = [res EXCEPT ![id] = NotFlagged]
     ELSE \/ res' = [res EXCEPT ![id] = Errored]
          \/ \E confirmedCount \in 0..info.friends :
             \E flaggedCount \in 0..(info.friends - confirmedCount) :
               LET confidence == calculateConfidence(confirmedCount, flaggedCount,
                                                     info.friends, info.age)
                   counts == [NotFlagged EXCEPT !.confirmed = confirmedCount,
                                                !.flagged = flaggedCount,
                                                !.total = info.friends,
                                                !.score = confidence]
               IN  \E exceeds \in ExceedsThreshold(confidence, info.friends) :
                     res' = [res EXCEPT ![id] =
                       IF exceeds
                       THEN [counts EXCEPT
                               !.user = id, !.autoFlagged = TRUE,
                               !.confidence = <<Rounded(confidence, info.friends), 100>>]
                       ELSE counts]
  /\ task' = [task EXCEPT ![id] = "send"]
  /\ UNCHANGED <<storeVars, trackVars, lateVars, workVars, voteVars, checker, userInfos, resultsChan, closed,
                 results, ppc, flaggedUsers, remainingUsers, validUsers, pending, signals>>

\* GroupModel.CheckConfirmedGroups: the IDs of the list that are in the
\* confirmed table.  The groups beyond IDs are in no table.
CheckConfirmedGroups(groupIDs) ==
  {g \in groupIDs \cap IDs : Present("confirmed", g)}

\* The same test with > for >=.
InEnoughGroupsStrict(flaggedGroupIDs) == Cardinality(flaggedGroupIDs) > MinFlaggedGroups

\* "Auto-flag users in 2 or more flagged groups".
InEnoughGroups(flaggedGroupIDs) == Cardinality(flaggedGroupIDs) >= MinFlaggedGroups

\* The goroutine of profile id runs processUserGroups: it starts one
\* tracking goroutine per group, asks which of the groups are confirmed, and
\* flags the user who is in two or more of them.
processUserGroups(id) ==
  /\ checker = "group"
  /\ id \in DOMAIN task /\ task[id] = "run"
  /\ LET info == userInfos[id] IN
     IF info.groups = {}
     THEN res' = [res EXCEPT ![id] = NotFlagged] /\ UNCHANGED pending
     ELSE /\ pending' = pending \cup {<<g, id>> : g \in info.groups}
          /\ \/ res' = [res EXCEPT ![id] = Errored]
             \/ LET flaggedGroupIDs == CheckConfirmedGroups(info.groups)
                     counts == [NotFlagged EXCEPT
                                  !.confirmed = Cardinality(flaggedGroupIDs),
                                  !.total = Cardinality(info.groups)]
                 IN  res' = [res EXCEPT ![id] =
                        IF InEnoughGroups(flaggedGroupIDs)
                        THEN [counts EXCEPT
                                !.user = id, !.autoFlagged = TRUE,
                                !.confidence = <<Cardinality(flaggedGroupIDs),
                                                 Cardinality(info.groups)>>]
                        ELSE counts]
  /\ task' = [task EXCEPT ![id] = "send"]
  /\ UNCHANGED <<storeVars, trackVars, lateVars, workVars, voteVars, checker, userInfos, resultsChan, closed,
                 results, ppc, flaggedUsers, remainingUsers, validUsers, signals>>

\* One tracking goroutine runs: its call records the pair, or fails and
\* the error is logged.
AddUserToGroupTrackingAsync(g, u) ==
  /\ <<g, u>> \in pending
  /\ pending' = pending \ {<<g, u>>}
  /\ \/ signals' = signals \cup {<<g, u>>}
     \/ UNCHANGED signals
  /\ UNCHANGED <<storeVars, trackVars, lateVars, workVars, voteVars, checker, userInfos, task, res, resultsChan,
                 closed, results, ppc, flaggedUsers, remainingUsers, validUsers>>

\* The channel holds len(userInfos) results.
Capacity == Cardinality(DOMAIN userInfos)

\* "resultsChan <- ...", then the deferred wg.Done().  A send waits while the
\* buffer is full; a send on a closed channel panics.
SendResult(id) ==
  /\ id \in DOMAIN task /\ task[id] = "send"
  /\ Len(resultsChan) < Capacity
  /\ IF closed
     THEN /\ ppc' = "panic"
          /\ UNCHANGED resultsChan
     ELSE /\ resultsChan' = Append(resultsChan, [UserID |-> id, Result |-> res[id]])
          /\ UNCHANGED ppc
  /\ task' = [task EXCEPT ![id] = "done"]
  /\ UNCHANGED <<storeVars, trackVars, lateVars, workVars, voteVars, checker, userInfos, res, closed, results,
                 flaggedUsers, remainingUsers, validUsers, pending, signals>>

\* The wait of a group whose tasks call wg.Done() before they send.
AllComputed == \A id \in DOMAIN task : task[id] # "run"

\* wg.Wait() of the closing goroutine.
AllDone == \A id \in DOMAIN task : task[id] = "done"

\* "wg.Wait(); close(resultsChan)".
CloseResults ==
  /\ ppc = "collect"
  /\ ~closed
  /\ AllDone
  /\ closed' = TRUE
  /\ UNCHANGED <<storeVars, trackVars, lateVars, workVars, voteVars, checker, userInfos, task, res, resultsChan,
                 results, ppc, flaggedUsers, remainingUsers, validUsers, pending, signals>>

\* The map with every entry sharing one result variable: what storing the
\* address of a loop variable that is not per-iteration would give.
CollectedShared(id, result) == [k \in DOMAIN results \cup {id} |-> result]

\* "for result := range resultsChan { results[result.UserID] = ... }".  The
\* friend checker stores the pointer the task made; the group checker stores
\* &result, the address of the loop variable, which is a new variable in
\* every iteration (Go 1.22 and later).
Collected(id, result) ==
  [k \in DOMAIN results \cup {id} |-> IF k = id THEN result ELSE results[k]]

CollectResult ==
  /\ ppc = "collect"
  /\ resultsChan # << >>
  /\ results' = Collected(Head(resultsChan).UserID, Head(resultsChan).Result)
  /\ resultsChan' = Tail(resultsChan)
  /\ UNCHANGED <<storeVars, trackVars, lateVars, workVars, voteVars, checker, userInfos, task, res, closed, ppc,
                 flaggedUsers, remainingUsers, validUsers, pending, signals>>

\* The range loop ends when the channel is closed and empty; the results
\* are then split into the flagged users and the remaining ones.
SeparateUsers ==
  /\ ppc = "collect"
  /\ checker \in Checkers
  /\ resultsChan = << >>
  /\ closed
  /\ LET flaggedIDs == {userID \in DOMAIN results :
                          /\ results[userID].status # "error"
                          /\ results[userID].autoFlagged}
     IN  /\ flaggedUsers' = [userID \in flaggedIDs |-> results[userID].user]
         /\ remainingUsers' = DOMAIN results \ flaggedIDs
  /\ ppc' = "returned"
  /\ UNCHANGED <<storeVars, trackVars, lateVars, workVars, voteVars, checker, userInfos, task, res, resultsChan,
                 closed, results, validUsers, pending, signals>>

\* ---- the friend checker on one profile ----

\* The checkers only read the store: the groups of confirmedIDs are in the
\* confirmed table, no session of the bot is active.
StoreIdle(confirmedIDs) ==
  /\ kind = "group"
  /\ tables = [EmptyTables EXCEPT !["confirmed"] =
                 [id \in IDs |-> IF id \in confirmedIDs THEN WorkerRow(1, 1) ELSE NoRow]]
  /\ lock = NoLocks
  /\ settings = [p \in Procs |-> [sortBy |-> "random", mode |-> "flagged",
                                  reviewMode |-> "standard"]]
  /\ pc = [p \in Procs |-> "idle"]
  /\ loc = [p \in Procs |-> Loc0]
  /\ txw = [p \in Procs |-> {}]
  /\ target = [p \in Procs |-> NoTarget]
  /\ ret = [p \in Procs |-> "none"]
  /\ viewedAgo = [id \in IDs |-> AgeCap]
  /\ TrackerIdle

InitPipe(checkers, confirmedSets) ==
  /\ \E confirmedIDs \in confirmedSets : StoreIdle(confirmedIDs)
  /\ checker \in checkers
  /\ userInfos = << >>
  /\ task = << >>
  /\ res = << >>
  /\ resultsChan = << >>
  /\ closed = FALSE
  /\ results = << >>
  /\ ppc = "idle"
  /\ flaggedUsers = << >>
  /\ remainingUsers = {}
  /\ validUsers = {}
  /\ pending = {}
  /\ signals = {}
  /\ WorkIdle
  /\ VoteIdle
  /\ LateIdle

FanIn ==
  \/ \E id \in ProfileIDs : SendResult(id)
  \/ CloseResults
  \/ CollectResult
  \/ SeparateUsers

InitScore == InitPipe({"friend"}, {{}})

\* The friend checker is handed one profile with any number of friends of
\* any status and any account age.
NextScore ==
  \/ \E info \in Infos(MaxFriends, {{}}, AgeDays) : ProcessUsers([id \in {1} |-> info])
  \/ processUserFriends(1)
  \/ FanIn

SpecScore == InitScore /\ [][NextScore]_vars

\* The tasks that computed a score.
Scored == {id \in DOMAIN res : res[id].status = "ok" /\ res[id].total >= MinFriends}

\* C21: with the friend count and the account age held fixed, the score of
\* one more confirmed friend, and the score of one more flagged friend, is
\* never below the score the checker computed.
ScoreMonotone ==
  \A id \in Scored :
    LET r == res[id] IN
    /\ calculateConfidence(r.confirmed + 1, r.flagged, r.total, userInfos[id].age)
         >= r.score
    /\ calculateConfidence(r.confirmed, r.flagged + 1, r.total, userInfos[id].age)
         >= r.score

\* A score that one more confirmed friend raises by a whole tier.
ScoreRaised ==
  \E id \in Scored :
    LET r == res[id] IN
    /\ r.confirmed = 1 /\ r.flagged = 1
    /\ calculateConfidence(2, 1, r.total, userInfos[id].age) > r.score + 10 * r.total

\* The age term of the score in hundredths, from the tiers at 1, 6, 12 and
\* 24 months.
AgeTerm(days) ==
  IF days < 30 THEN 10
  ELSE IF days < 180 THEN 8
  ELSE IF days < 365 THEN 6
  ELSE IF days < 730 THEN 4
  ELSE 2

\* C22 as claimed: the score of a profile without confirmed and flagged
\* friends is 0.
ZeroSignalsZeroScore ==
  \A id \in Scored :
    (res[id].confirmed = 0 /\ res[id].flagged = 0) => res[id].score = 0

\* C22 amended: the score of a profile without confirmed and flagged friends
\* is the age term alone, between 0.02 and 0.10, and the profile is not
\* flagged.
ZeroSignalsAgeOnly ==
  \A id \in Scored :
    (res[id].confirmed = 0 /\ res[id].flagged = 0) =>
      /\ 100 * res[id].score = AgeTerm(userInfos[id].age) * ConfidenceDen(res[id].total)
      /\ ~res[id].autoFlagged

\* A young account with friends, none of them confirmed or flagged, has
\* been scored.
ZeroSignalsScored ==
  \E id \in Scored :
    /\ res[id].confirmed = 0 /\ res[id].flagged = 0
    /\ userInfos[id].age < 30

\* C23: a profile with fewer than 3 friends is not flagged: its task
\* returns no user, and ProcessUsers returns it among the remaining users.
FewFriendsNotFlagged ==
  \A id \in DOMAIN userInfos :
    userInfos[id].friends < 3 =>
      /\ ~res[id].autoFlagged
      /\ ppc = "returned" => (id \notin DOMAIN flaggedUsers /\ id \in remainingUsers)

\* ProcessUsers has returned a new account that has two friends.
FewFriendsReturned ==
  /\ ppc = "returned"
  /\ \E id \in DOMAIN userInfos : userInfos[id].friends = 2 /\ userInfos[id].age < 30

\* The scenario of C24: 10 friends, 2 confirmed, 1 flagged, 10 days old.
InScenario(id) ==
  /\ id \in Scored
  /\ res[id].total = 10 /\ res[id].confirmed = 2 /\ res[id].flagged = 1
  /\ userInfos[id].age = 10

\* C24 as claimed: the scenario's score is 0.30, from the absolute-count
\* tier 0.2.
ScenarioScoreTier2 ==
  \A id \in DOMAIN res :
    InScenario(id) =>
      /\ calculateInappropriateWeight(res[id].confirmed, res[id].flagged) = 2
      /\ 100 * res[id].score = 30 * ConfidenceDen(res[id].total)

\* C24 amended: the scenario's score is 0.5*0.4 + 0.4*0.25 + 0.1*1.0 = 0.40,
\* of which 0.20 is the absolute-count term of tier 0.4, 0.10 the ratio term
\* and 0.10 the age term.
ScenarioScoreTier4 ==
  \A id \in DOMAIN res :
    InScenario(id) =>
      /\ 100 * res[id].score = 40 * ConfidenceDen(res[id].total)
      /\ 100 * (res[id].score - calculateConfidence(0, 0, res[id].total, 10))
           = 30 * ConfidenceDen(res[id].total)
      /\ 100 * (calculateConfidence(0, 0, res[id].total, 10)) 
           = 10 * ConfidenceDen(res[id].total)

\* The scenario's profile has been scored.
ScenarioScored == \E id \in DOMAIN res : InScenario(id)

\* ---- the group checker on one profile ----

InitGroup == InitPipe({"group"}, SUBSET IDs)

\* The group checker is handed one profile that is in any of the groups.
NextGroup ==
  \/ \E info \in Infos(0, SUBSET CheckGroups, {10}) : ProcessUsers([id \in {1} |-> info])
  \/ processUserGroups(1)
  \/ \E g \in CheckGroups : AddUserToGroupTrackingAsync(g, 1)
  \/ FanIn

SpecGroup == InitGroup /\ [][NextGroup]_vars

\* The confirmed groups the profile id is a member of.
ConfirmedGroupsOf(id) ==
  {g \in userInfos[id].groups \cap IDs : tables["confirmed"][g] # NoRow}

BatchInfos == Infos(MinFriends, {{}, {1, 2}}, {10}) \ Infos(MinFriends - 2, {{}, {1, 2}}, {10})

InitFanIn == InitPipe(Checkers, {IDs})

\* Either checker is handed a batch of distinct users, the empty batch too.
NextFanIn ==
  \/ \E batch \in SUBSET ProfileIDs : \E infos \in [batch -> BatchInfos] : ProcessUsers(infos)
  \/ \E id \in ProfileIDs : processUserFriends(id) \/ processUserGroups(id)
  \/ \E g \in CheckGroups, id \in ProfileIDs : AddUserToGroupTrackingAsync(g, id)
  \/ FanIn

SpecFanIn == InitFanIn /\ [][NextFanIn]_vars

\* C26: when ProcessUsers returns, every profile of the batch is either
\* among the flagged users or among the remaining (unresolved) ones, never
\* in both and never in neither, and every profile whose task returned an
\* error is among the remaining ones.
NoProfileDropped ==
  ppc = "returned" =>
    \A id \in DOMAIN userInfos :
      /\ (id \in DOMAIN flaggedUsers) # (id \in remainingUsers)
      /\ res[id].status = "error" => id \in remainingUsers
      /\ id \in DOMAIN flaggedUsers => flaggedUsers[id] = id

\* ProcessUsers has returned a batch of which one task failed and another
\* flagged its profile.
ErrorBesideFlag ==
  /\ ppc = "returned"
  /\ \E a, b \in DOMAIN userInfos :
       res[a].status = "error" /\ res[b].autoFlagged /\ b \in DOMAIN flaggedUsers

\* ---- UserFetcher.FetchInfos ----

\* The profile of a user that has not been fetched.
NoInfo == [friends |-> 0, groups |-> {}, age |-> 0]

\* FetchInfos is called with a batch of user IDs: it makes the channel and
\* starts one goroutine per ID.
FetchInfos(userIDs) ==
  /\ ppc = "idle"
  /\ checker = "fetch"
  /\ userInfos' = [id \in userIDs |-> NoInfo]
  /\ task' = [id \in userIDs |-> "run"]
  /\ res' = [id \in userIDs |-> NoRes]
  /\ resultsChan' = << >>
  /\ closed' = FALSE
  /\ results' = << >>
  /\ ppc' = "collect"
  /\ UNCHANGED <<storeVars, trackVars, lateVars, workVars, voteVars, checker, flaggedUsers, remainingUsers, validUsers,
                 pending, signals>>

\* The goroutine of user id: GetUserByID fails, or the user is banned, or
\* the groups, friends and games are fetched and the profile is built.
fetchUser(id) ==
  /\ checker = "fetch"
  /\ id \in DOMAIN task /\ task[id] = "run"
  /\ \/ res' = [res EXCEPT ![id] = Errored] /\ UNCHANGED userInfos
     \/ res' = [res EXCEPT ![id] = [Errored EXCEPT !.status = "banned"]]
        /\ UNCHANGED userInfos
     \/ \E info \in BatchInfos :
          /\ userInfos' = [userInfos EXCEPT ![id] = info]
          /\ res' = [res EXCEPT ![id] = [NotFlagged EXCEPT !.user = id]]
  /\ task' = [task EXCEPT ![id] = "send"]
  /\ UNCHANGED <<storeVars, trackVars, lateVars, workVars, voteVars, checker, resultsChan, closed, results, ppc,
                 flaggedUsers, remainingUsers, validUsers, pending, signals>>

\* "Process results and filter out errors": the users whose result carries
\* an error, ErrUserBanned or another, are left out.
FilterValid ==
  /\ ppc = "collect"
  /\ checker = "fetch"
  /\ resultsChan = << >>
  /\ closed
  /\ validUsers' = {userID \in DOMAIN results : results[userID].status = "ok"}
  /\ ppc' = "returned"
  /\ UNCHANGED <<storeVars, trackVars, lateVars, workVars, voteVars, checker, userInfos, task, res, resultsChan,
                 closed, results, flaggedUsers, remainingUsers, pending, signals>>

\* ---- fan-out and fan-in under a fair scheduler ----

Stages == Checkers \cup {"fetch"}

InitBatch == InitPipe(Stages, {IDs})

TaskStep(id) ==
  \/ processUserFriends(id)
  \/ processUserGroups(id)
  \/ fetchUser(id)

NextBatch ==
  \/ \E batch \in SUBSET ProfileIDs : \E infos \in [batch -> BatchInfos] : ProcessUsers(infos)
  \/ \E userIDs \in SUBSET ProfileIDs : FetchInfos(userIDs)
  \/ \E id \in ProfileIDs : TaskStep(id)
  \/ \E g \in CheckGroups, id \in ProfileIDs : AddUserToGroupTrackingAsync(g, id)
  \/ FanIn
  \/ FilterValid

\* The Go scheduler runs every goroutine that can run: the tasks, the
\* closing goroutine and the caller's collection loop.
SpecBatch ==
  /\ InitBatch
  /\ [][NextBatch]_vars
  /\ \A id \in ProfileIDs : WF_vars(TaskStep(id)) /\ WF_vars(SendResult(id))
  /\ WF_vars(CloseResults)
  /\ WF_vars(CollectResult)
  /\ WF_vars(SeparateUsers)
  /\ WF_vars(FilterValid)

\* Every task has sent its result and the caller has received it.
AllDelivered ==
  /\ \A id \in DOMAIN task : task[id] = "done"
  /\ resultsChan = << >>
  /\ DOMAIN results = DOMAIN userInfos

\* C27: a call of ProcessUsers or FetchInfos that has started its tasks
\* returns, and when it has returned every task has delivered its result:
\* no task is left waiting to send and no result is still on its way.
BatchCompletes ==
  /\ (ppc = "collect") ~> (ppc = "returned")
  /\ [](ppc = "returned" => AllDelivered)

\* A call on a full batch has returned.
BatchReturned ==
  /\ ppc = "returned"
  /\ Cardinality(DOMAIN userInfos) >= 2

\* ---- the signals of a checked batch ----

\* C28: once ProcessUsers has returned and every goroutine it left behind
\* has run, the pair (group, user) of every group of every profile of the
\* batch is recorded in the tracker, whatever the task's outcome was.
SignalsRecorded ==
  (ppc = "returned" /\ pending = {}) =>
    \A id \in DOMAIN userInfos : \A g \in userInfos[id].groups : <<g, id>> \in signals

\* ---- the worker's loop ----

\* FriendUsersToProcess / GroupUsersToProcess, scaled down.
UsersToProcess == 1

Range(s) == {s[i] : i \in DOMAIN s}

\* The lists of distinct user IDs.
IDLists ==
  {s \in UNION {[1..n -> ProfileIDs] : n \in 0..NumProfiles} :
     \A i, j \in DOMAIN s : i # j => s[i] # s[j]}

\* "friendIDs[:FriendUsersToProcess]" and "friendIDs[FriendUsersToProcess:]".
BatchOf(ids) == SubSeq(ids, 1, UsersToProcess)
RestOf(ids) == SubSeq(ids, UsersToProcess + 1, Len(ids))

\* Start(): the loop begins with no ID carried over.
Start ==
  /\ wpc = "stopped"
  /\ wpc' = "batch"
  /\ oldIDs' = << >>
  /\ UNCHANGED <<storeVars, trackVars, lateVars, pipeVars, voteVars, friendIDs, failedValidationIDs>>

\* processFriendsBatch / processGroup: new IDs are appended to the carried
\* ones until the list fills a batch.  When the call fails the loop sleeps
\* and starts over with the carried IDs.
processFriendsBatch ==
  /\ wpc = "batch"
  /\ \/ \E ids \in IDLists :
          /\ Len(ids) >= UsersToProcess
          /\ Len(ids) >= Len(oldIDs)
          /\ SubSeq(ids, 1, Len(oldIDs)) = oldIDs
          /\ friendIDs' = ids
          /\ wpc' = "fetch"
     \/ UNCHANGED <<wpc, friendIDs>>
  /\ failedValidationIDs' = {}
  /\ UNCHANGED <<storeVars, trackVars, lateVars, pipeVars, voteVars, oldIDs>>

\* The worker calls FetchInfos with the first UsersToProcess IDs.
FetchBatch ==
  /\ wpc = "fetch"
  /\ FetchInfos(Range(BatchOf(friendIDs)))

\* userChecker.ProcessUsers(userInfos) gets the fetched profiles and returns
\* the IDs that failed validation; then the rest of the list and the failed
\* IDs are carried into the next iteration.
PrepareNextBatch ==
  /\ wpc = "fetch"
  /\ ppc = "returned"
  /\ \E failed \in SUBSET validUsers :
       /\ failedValidationIDs' = failed
       /\ \E tail \in IDLists :
            /\ Range(tail) = failed
            /\ oldIDs' = RestOf(friendIDs) \o tail
  /\ wpc' = "batch"
  /\ ppc' = "idle"
  /\ UNCHANGED <<storeVars, trackVars, lateVars, voteVars, friendIDs, checker, userInfos, task, res,
                 resultsChan, closed, results, flaggedUsers, remainingUsers, validUsers,
                 pending, signals>>

InitWorker == InitPipe({"fetch"}, {{}})

NextWorker ==
  \/ Start
  \/ processFriendsBatch
  \/ FetchBatch
  \/ \E id \in ProfileIDs : fetchUser(id) \/ SendResult(id)
  \/ CloseResults
  \/ CollectResult
  \/ FilterValid
  \/ PrepareNextBatch

SpecWorker == InitWorker /\ [][NextWorker]_vars

\* C29: at the end of an iteration, every ID of the batch whose fetch
\* failed or whose check failed is in the list carried into the next
\* iteration.
FailedIDsKept ==
  [][(wpc = "fetch" /\ wpc' = "batch") =>
       \A id \in Range(BatchOf(friendIDs)) :
         (res[id].status = "error" \/ id \in failedValidationIDs') =>
           id \in Range(oldIDs')]_vars

\* ---- VoteModel: the votes on one target and their verification ----

\* The rows an UPDATE without the is_verified filter would take.
AnyVote(v) == votes[v].exists

\* "WHERE id = ? AND is_verified = false".
Unverified(v) == votes[v].exists /\ ~votes[v].isVerified

\* SaveVote: one INSERT ... ON CONFLICT (id, discord_user_id) DO UPDATE that
\* sets is_upvote and voted_at of the existing row and nothing else.  It
\* waits while a transaction holds the row.
SaveVote(p, v, isUpvote) ==
  /\ vpc[p] = "idle"
  /\ voteLock[v] = 0
  /\ votes' = [votes EXCEPT ![v] =
                 IF votes[v].exists
                 THEN [@ EXCEPT !.isUpvote = isUpvote]
                 ELSE [isUpvote |-> isUpvote, isCorrect |-> FALSE,
                       isVerified |-> FALSE, exists |-> TRUE]]
  /\ UNCHANGED <<storeVars, trackVars, lateVars, pipeVars, workVars, voteStats, voteLock, vpc, vtx,
                 verifications>>

\* VerifyVotes opens a transaction and runs the UPDATE ... RETURNING: it
\* waits for the rows another transaction holds, takes the rows that are
\* then unverified, and keeps them locked.
VerifyVotes(p, wasInappropriate) ==
  /\ vpc[p] = "idle"
  /\ LET rows == {v \in Voters : Unverified(v)} IN
     /\ \A v \in rows : voteLock[v] = 0
     /\ voteLock' = [v \in Voters |-> IF v \in rows THEN p ELSE voteLock[v]]
     /\ vtx' = [vtx EXCEPT ![p] =
                  [v \in rows |-> [isCorrect |-> (votes[v].isUpvote # wasInappropriate)]]]
  /\ vpc' = [vpc EXCEPT ![p] = "vv_insert"]
  /\ UNCHANGED <<storeVars, trackVars, lateVars, pipeVars, workVars, votes, voteStats, verifications>>

\* "if len(stats) > 0 { tx.NewInsert().Model(&stats) }".
InsertVoteStats(p) ==
  /\ vpc[p] = "vv_insert"
  /\ vpc' = [vpc EXCEPT ![p] = "vv_commit"]
  /\ UNCHANGED <<storeVars, trackVars, lateVars, pipeVars, workVars, votes, voteStats, voteLock, vtx,
                 verifications>>

\* The transaction commits: the updated votes and the new vote_stats rows
\* become visible together and the locks are released.
CommitVerify(p) ==
  /\ vpc[p] = "vv_commit"
  /\ votes' = [v \in Voters |->
                 IF v \in DOMAIN vtx[p]
                 THEN [votes[v] EXCEPT !.isCorrect = vtx[p][v].isCorrect, !.isVerified = TRUE]
                 ELSE votes[v]]
  /\ voteStats' = [v \in Voters |-> voteStats[v] + (IF v \in DOMAIN vtx[p] THEN 1 ELSE 0)]
  /\ verifications' = [v \in Voters |->
                         verifications[v] + (IF v \in DOMAIN vtx[p] THEN 1 ELSE 0)]
  /\ voteLock' = [v \in Voters |-> IF voteLock[v] = p THEN 0 ELSE voteLock[v]]
  /\ vtx' = [vtx EXCEPT ![p] = << >>]
  /\ vpc' = [vpc EXCEPT ![p] = "idle"]
  /\ UNCHANGED <<storeVars, trackVars, lateVars, pipeVars, workVars>>

\* A statement or the commit fails: the transaction is rolled back.
FailVerify(p) ==
  /\ vpc[p] \in {"vv_insert", "vv_commit"}
  /\ voteLock' = [v \in Voters |-> IF voteLock[v] = p THEN 0 ELSE voteLock[v]]
  /\ vtx' = [vtx EXCEPT ![p] = << >>]
  /\ vpc' = [vpc EXCEPT ![p] = "idle"]
  /\ UNCHANGED <<storeVars, trackVars, lateVars, pipeVars, workVars, votes, voteStats, verifications>>

InitVerify == StoreIdle({}) /\ CheckIdle

\* The sessions of the bot save votes and verify them in any order, also
\* at the same time.
NextVerify ==
  \E p \in Procs :
    \/ \E v \in Voters, isUpvote \in BOOLEAN : SaveVote(p, v, isUpvote)
    \/ \E wasInappropriate \in BOOLEAN : VerifyVotes(p, wasInappropriate)
    \/ InsertVoteStats(p)
    \/ CommitVerify(p)
    \/ FailVerify(p)

SpecVerify == InitVerify /\ [][NextVerify]_vars

\* C30: the correctness flag of a vote record is set at most once; a
\* verified record has exactly one vote-statistics record, an unverified
\* one has none.
VerifiedOnce ==
  \A v \in Voters :
    /\ verifications[v] <= 1
    /\ voteStats[v] = verifications[v]
    /\ votes[v].isVerified <=> verifications[v] = 1

\* A later VerifyVotes call, after every vote has been verified and a voter
\* has voted again, finds no vote to verify.
NothingLeftToVerify ==
  \E p \in Procs :
    /\ vpc[p] = "vv_insert"
    /\ DOMAIN vtx[p] = {}
    /\ \A v \in Voters : votes[v].isVerified
    /\ \E v \in Voters : votes[v].isCorrect # (votes[v].isUpvote # TRUE)
    /\ \E v \in Voters : votes[v].isCorrect # (votes[v].isUpvote # FALSE)

\* C31: a SaveVote call (the only step that changes a vote while no
\* VerifyVotes call moves) leaves every vote record that was already saved
\* as it was.
SavedVoteKept ==
  [][(\A p \in Procs : vpc'[p] = vpc[p]) =>
       \A v \in Voters : votes[v].exists => votes'[v] = votes[v]]_vars

\* ---- GetUserToScan / GetNextConfirmedUser: the scan queue ----

\* INTERVAL '1 day', in clock steps of twelve hours.
ScanInterval == 2

\* The clock of the scan model stops here.
MaxNow == 3

ScanTables == {"confirmed", "flagged"}

\* last_scanned of a row that was never scanned: the zero time (NULL in the
\* older schema), older than any interval.
Never == 0 - ScanInterval - 1

\* The last_scanned entry of an ID that has no row in the table.
Absent == Never - 1

\* The scan calls of the two stores: UserModel.GetUserToScan probes the
\* confirmed table and then the flagged table, UserRepository.
\* GetNextConfirmedUser the confirmed table only.
ScanRepos == {"model", "repository"}

ScanLoc0 == [pc |-> "idle", tbl |-> "none", id |-> 0, at |-> 0]

\* WHERE last_scanned < NOW() - INTERVAL '1 day'
ScanDue(t, id) ==
  /\ scan.tab[t][id] # Absent
  /\ scan.tab[t][id] < scan.now - ScanInterval

\* ORDER BY last_scanned ASC LIMIT 1 FOR UPDATE SKIP LOCKED: the rows the
\* query can return.
ScanPicks(t) ==
  LET S == {id \in IDs : ScanDue(t, id) /\ scan.lock[t][id] = 0}
  IN {i \in S : \A j \in S : scan.tab[t][i] <= scan.tab[t][j]}

ScanUnlocked(p) ==
  [t \in ScanTables |-> [id \in IDs |-> IF scan.lock[t][id] = p THEN 0 ELSE scan.lock[t][id]]]

ScanFrame == UNCHANGED <<storeVars, trackVars, pipeVars, workVars, voteVars, member, runner>>

\* The worker calls GetUserToScan: RunInTx opens the transaction.
GetUserToScan(p) ==
  /\ scan.on /\ scan.repo = "model"
  /\ scan.loc[p].pc = "idle"
  /\ scan' = [scan EXCEPT !.loc[p] = [ScanLoc0 EXCEPT !.pc = "select", !.tbl = "confirmed"],
                          !.ret[p] = 0]
  /\ ScanFrame

\* The worker of the older store calls GetNextConfirmedUser.
GetNextConfirmedUser(p) ==
  /\ scan.on /\ scan.repo = "repository"
  /\ scan.loc[p].pc = "idle"
  /\ scan' = [scan EXCEPT !.loc[p] = [ScanLoc0 EXCEPT !.pc = "select", !.tbl = "confirmed"],
                          !.ret[p] = 0]
  /\ ScanFrame

\* The SELECT ... FOR UPDATE SKIP LOCKED of the current table.  Without a row
\* GetUserToScan goes on from the confirmed to the flagged table; from the
\* flagged table, and in GetNextConfirmedUser, the error is returned and the
\* transaction rolled back.
ScanSelect(p) ==
  /\ scan.on
  /\ scan.loc[p].pc = "select"
  /\ LET t == scan.loc[p].tbl
     IN IF ScanPicks(t) # {}
        THEN \E id \in ScanPicks(t) :
               scan' = [scan EXCEPT !.lock[t][id] = p,
                                    !.loc[p].pc = "stamp", !.loc[p].id = id]
        ELSE IF t = "confirmed" /\ scan.repo = "model"
        THEN scan' = [scan EXCEPT !.loc[p].tbl = "flagged"]
        ELSE scan' = [scan EXCEPT !.loc[p] = ScanLoc0, !.ret[p] = -1,
                                  !.lock = ScanUnlocked(p)]
  /\ ScanFrame

\* UPDATE ... SET last_scanned = time.Now() WHERE id = ?, inside the
\* transaction.
ScanStamp(p) ==
  /\ scan.on
  /\ scan.loc[p].pc = "stamp"
  /\ scan' = [scan EXCEPT !.loc[p].pc = "commit", !.loc[p].at = scan.now]
  /\ ScanFrame

\* The transaction commits: the stamp becomes visible, the row lock goes, and
\* the call returns the user.  last and near are history: the stamp of the
\* last claim that handed each user out, and the users handed out again
\* within the interval.
ScanCommit(p) ==
  /\ scan.on
  /\ scan.loc[p].pc = "commit"
  /\ LET l == scan.loc[p]
     IN scan' = [scan EXCEPT !.tab[l.tbl][l.id] = l.at,
                             !.lock = ScanUnlocked(p),
                             !.loc[p] = ScanLoc0,
                             !.ret[p] = l.id,
                             !.last[l.id] = l.at,
                             !.near = IF scan.last[l.id] # Absent
                                         /\ l.at - scan.last[l.id] < ScanInterval
                                      THEN @ \cup {l.id} ELSE @]
  /\ ScanFrame

\* A statement or the commit fails: the transaction is rolled back and the
\* call returns the error.
ScanFail(p) ==
  /\ scan.on
  /\ scan.loc[p].pc \in {"stamp", "commit"}
  /\ scan' = [scan EXCEPT !.lock = ScanUnlocked(p), !.loc[p] = ScanLoc0, !.ret[p] = -1]
  /\ ScanFrame

\* Twelve hours pass.
ScanTick ==
  /\ scan.on
  /\ scan.now < MaxNow
  /\ scan' = [scan EXCEPT !.now = @ + 1]
  /\ ScanFrame

\* The scan queue at the start: every ID has a row in the confirmed table, in
\* the flagged table, in both (the state StatusExclusive shows the store can
\* reach) or in neither, scanned never or just now.
InitScan ==
  /\ StoreIdle({})
  /\ PipeIdle /\ WorkIdle /\ VoteIdle
  /\ member = NoMember /\ runner = NoRunner
  /\ \E repo \in ScanRepos :
     \E tab \in [ScanTables -> [IDs -> {Absent, Never, 0}]] :
       scan = [on |-> TRUE, repo |-> repo, now |-> 0, tab |-> tab,
               lock |-> [t \in ScanTables |-> [id \in IDs |-> 0]],
               loc |-> [p \in Procs |-> ScanLoc0],
               ret |-> [p \in Procs |-> 0],
               last |-> [id \in IDs |-> Absent],
               near |-> {}]

NextScan ==
  \/ \E p \in Procs : GetUserToScan(p)
  \/ \E p \in Procs : GetNextConfirmedUser(p)
  \/ \E p \in Procs : ScanSelect(p)
  \/ \E p \in Procs : ScanStamp(p)
  \/ \E p \in Procs : ScanCommit(p)
  \/ \E p \in Procs : ScanFail(p)
  \/ ScanTick

SpecScan == InitScan /\ [][NextScan]_vars

\* C32: no entity was handed out by a scan claim stamped less than one scan
\* interval after the stamp of the preceding claim that handed it out
\* (scan.last[id] is that stamp, scan.near the entities it happened to).
OneScanPerInterval == scan.near = {}

\* ---- a review request with a sort policy the store does not know ----

\* A types.ReviewSortBy value none of the cases of the switch matches.
UnknownSort == "unknown"

\* The sessions ask with any sort policy, known or not; every entity is in at
\* most one table, viewed just now or long ago.
InitSort ==
  /\ kind = "user"
  /\ \E s \in SortPolicies \cup {UnknownSort}, m \in TargetModes :
       /\ settings = [p \in Procs |-> [sortBy |-> s, mode |-> m, reviewMode |-> "standard"]]
       /\ \E place \in [IDs -> Statuses \cup {"none"}],
             lvs \in [IDs -> {0, AgeCap}], ks \in [IDs -> Keys] :
            tables = [st \in Statuses |-> [id \in IDs |->
              IF place[id] = st THEN KeyedRow(s, lvs[id], ks[id]) ELSE NoRow]]
  /\ lock = NoLocks
  /\ pc = [p \in Procs |-> "idle"]
  /\ loc = [p \in Procs |-> Loc0]
  /\ txw = [p \in Procs |-> {}]
  /\ target = [p \in Procs |-> NoTarget]
  /\ ret = [p \in Procs |-> "none"]
  /\ viewedAgo = [id \in IDs |-> AgeCap]
  /\ TrackerIdle
  /\ CheckIdle

NextSort ==
  \E p \in Procs :
    \/ StartReview(p)
    \/ SelectForReview(p)
    \/ GetRandomFlaggedUser(p)
    \/ LegacySelect(p)
    \/ StampLastViewed(p)
    \/ CommitReview(p)
    \/ SkipTarget(p)

SpecSort == InitSort /\ [][NextSort]_vars

\* C33: a session whose sort policy is unknown never locks or stamps a row and
\* is never returned one, and a call of it that has returned has returned
\* the error.
UnknownSortRejected ==
  \A p \in Procs : settings[p].sortBy \notin SortPolicies =>
    /\ pc[p] \notin {"rv_stamp", "rv_commit"}
    /\ target[p] = NoTarget
    /\ ret[p] \in {"none", "error"}
    /\ \A st \in Statuses, id \in IDs : lock[st][id] # p

\* ---- RemoveBannedUsers beside Confirm and Clear ----

\* C34: when RemoveBannedUsers commits, every entity its commit takes out of
\* the flagged or the confirmed table is in the banned table, so that no
\* entity leaves all status tables.
BanKeepsEntities ==
  [][\A p \in Procs :
       (pc[p] = "tx_commit" /\ loc[p].op = "ban" /\ ret'[p] = "ok") =>
         \A id \in IDs :
           (InTables(id) \cap {"flagged", "confirmed"} # {}
              /\ InTables(id)' \cap {"flagged", "confirmed"} = {}) =>
             "banned" \in InTables(id)']_vars

\* ---- from the worker's batch to the bulk upsert ----

\* processFriendsBatch / processGroup: one CheckExistingUsers statement over
\* the candidate IDs, and only the IDs it does not return go into the batch.
\* Of these, flagged is what the user checker will later decide to flag.
AssembleBatch(p, candidates) ==
  /\ pc[p] = "idle" /\ target[p] = NoTarget
  /\ LET new == {id \in candidates : InTables(id) = {}}
     IN \E flagged \in SUBSET new \ {{}} :
          loc' = [loc EXCEPT ![p] = [Loc0 EXCEPT !.op = "flag", !.ids = flagged]]
  /\ pc' = [pc EXCEPT ![p] = "wk_write"]
  /\ ret' = [ret EXCEPT ![p] = "none"]
  /\ UNCHANGED <<checkVars, trackVars, kind, tables, lock, settings, txw, target, viewedAgo>>

\* The worker's SaveFlaggedUsers call for the flagged users of its batch.
SaveBatch(p) ==
  /\ pc[p] = "wk_write"
  /\ \A id \in loc[p].ids : lock["flagged"][id] = 0
  /\ tables' = Upserted(tables, loc[p].ids, [id \in loc[p].ids |-> WorkerRow(1, 1)])
  /\ pc' = [pc EXCEPT ![p] = "idle"]
  /\ loc' = [loc EXCEPT ![p] = Loc0]
  /\ ret' = [ret EXCEPT ![p] = "ok"]
  /\ UNCHANGED <<checkVars, trackVars, kind, lock, settings, txw, target, viewedAgo>>

\* Every caller is by turns a worker and a reviewer.
NextFlag ==
  \/ \E p \in Procs :
       \/ \E candidates \in SUBSET IDs \ {{}} : AssembleBatch(p, candidates)
       \/ SaveBatch(p)
       \/ ReviewStep(p)
       \/ TransitionStep(p)
       \/ CommitTransition(p)

SpecFlag == Init /\ [][NextFlag]_vars

\* C35: every ID a worker's bulk upsert writes into the flagged table is, when
\* it is written, in none of the confirmed, cleared and banned tables.
FlaggedOnlyIfNew ==
  [][\A p \in Procs :
       (pc[p] = "wk_write" /\ pc'[p] = "idle") =>
         \A id \in loc[p].ids :
           InTables(id) \cap {"confirmed", "cleared", "banned"} = {}]_vars

\* ---- two qualification calls at once ----

\* One session records signals for group 1; every session asks for the
\* qualified groups, through the tracking model or the older repository.
NextDrain ==
  \/ \E b \in [{1} -> UserLists] : AddUsersToGroupsTracking(Recorder, b)
  \/ LockExisting(Recorder)
  \/ InsertTracking(Recorder)
  \/ CommitAdd(Recorder)
  \/ \E p \in Procs :
       \/ QualifyStep(p)
       \/ GetAndRemoveQualifiedGroupTrackings(p, MinFlaggedUsers)
       \/ RemoveQualified(p)

SpecDrain == InitTrack /\ [][NextDrain]_vars

\* C36: a qualification call returns no group that another call has returned
\* while this one was running (tloc[p].since holds the groups returned before
\* this call began).
DrainedByOne ==
  [][\A p \in Procs :
       (tpc[p] \in {"dq_update", "rq_delete"} /\ tpc'[p] = "idle") =>
         DOMAIN tloc[p].found \cap (drained \ tloc[p].since) = {}]_vars

\* ---- training votes of several sessions on one entity ----

\* Every session is in training mode and holds entity 1 as its target.
InitTally ==
  /\ kind \in Kinds
  /\ tables = [st \in Statuses |-> [id \in IDs |->
       IF st = "flagged" /\ id = 1 THEN ClaimedRow ELSE NoRow]]
  /\ lock = NoLocks
  /\ settings = [p \in Procs |-> [sortBy |-> "random", mode |-> "flagged", reviewMode |-> "training"]]
  /\ pc = [p \in Procs |-> "idle"]
  /\ loc = [p \in Procs |-> Loc0]
  /\ txw = [p \in Procs |-> {}]
  /\ target = [p \in Procs |-> [id |-> 1, status |-> "flagged", row |-> ClaimedRow]]
  /\ ret = [p \in Procs |-> "none"]
  /\ viewedAgo = [id \in IDs |-> 0]
  /\ TrackerIdle
  /\ CheckIdle

NextTally ==
  \E p \in Procs :
    \/ handleConfirmGroup(p)
    \/ handleClearGroup(p)
    \/ VoteStep(p)

SpecTally == InitTally /\ [][NextTally]_vars

\* C37: the votes counted on the entity, upvotes + downvotes, have risen by
\* the number of UpdateTrainingVotes calls that have returned nil.
VotesAllCounted ==
  tables["flagged"][1].up + tables["flagged"][1].down =
    ClaimedRow.up + ClaimedRow.down + Cardinality({p \in Procs : ret[p] = "ok"})

\* ---- MemberWorker: Start and processGroup ----

\* GroupUsersToProcess and the page size WithLimit(100), scaled down.
MemberBatch == 2
PageLimit == 2

\* The longest member listing, in pages, and the number of page requests of
\* one processGroup call the model counts up to.
MaxPages == 2
MaxRequests == 3

\* Start(): the loop begins with oldUserIDs nil.  down tells whether the
\* database refuses every CheckExistingUsers call from now on.
MemberStart ==
  /\ member.pc = "stopped"
  /\ \E down \in BOOLEAN :
       member' = [pc |-> "group", old |-> 0, len |-> 0, cursor |-> 0, pages |-> 0,
                  requests |-> 0, down |-> down]
  /\ UNCHANGED <<storeVars, trackVars, pipeVars, workVars, voteVars, scan, runner>>

\* GetNextConfirmedGroup returns a group, whose member listing has any number
\* of pages, and processGroup(group.ID, oldUserIDs) begins with cursor "" and
\* userIDs = oldUserIDs.
processGroup ==
  /\ member.pc = "group"
  /\ \E pages \in 0..MaxPages :
       member' = [member EXCEPT !.pc = "page", !.pages = pages, !.cursor = 0,
                                !.len = member.old, !.requests = 0]
  /\ UNCHANGED <<storeVars, trackVars, pipeVars, workVars, voteVars, scan, runner>>

\* The page request of processGroup fails: the call returns the error of
\* GetGroupUsers, and Start sleeps and goes on with the next group.
RequestFails ==
  /\ member.pc = "page"
  /\ member.len < MemberBatch
  /\ member' = [member EXCEPT !.pc = "group", !.requests = Min(@ + 1, MaxRequests)]
  /\ UNCHANGED <<storeVars, trackVars, pipeVars, workVars, voteVars, scan, runner>>

\* The head of one turn of the loop of processGroup.  With
\* GroupUsersToProcess IDs or more the loop ends.  Otherwise the page at the
\* cursor is requested, and on an empty page the loop ends.
RequestPage ==
  /\ member.pc = "page"
  /\ IF member.len >= MemberBatch
     THEN member' = [member EXCEPT !.pc = "fetch"]
     ELSE LET asked == [member EXCEPT !.requests = Min(@ + 1, MaxRequests)]
          IN IF member.pages = 0
             THEN member' = [asked EXCEPT !.pc = "fetch"]
             ELSE member' = [asked EXCEPT !.pc = "lookup"]
  /\ UNCHANGED <<storeVars, trackVars, pipeVars, workVars, voteVars, scan, runner>>

\* The rest of the turn: CheckExistingUsers for the IDs of the page.  When it
\* fails the loop continues with the cursor where it was; otherwise the new
\* IDs of the page are appended, and the loop ends after the last page or
\* moves the cursor on.
CheckNewUsers ==
  /\ member.pc = "lookup"
  /\ IF member.down
     THEN member' = [member EXCEPT !.pc = "page"]
     ELSE \E new \in 0..PageLimit :
            member' = [member EXCEPT
               !.len = member.len + new,
               !.cursor = IF member.cursor + 1 < member.pages THEN @ + 1 ELSE @,
               !.pc = IF member.cursor + 1 < member.pages THEN "page" ELSE "fetch"]
  /\ UNCHANGED <<storeVars, trackVars, pipeVars, workVars, voteVars, scan, runner>>

\* "userIDs[:GroupUsersToProcess]" for FetchInfos: with fewer IDs the slice
\* expression panics unless the capacity append has left reaches that far.
SliceBatch ==
  /\ member.pc = "fetch"
  /\ \/ /\ member.len >= MemberBatch
        /\ member' = [member EXCEPT !.pc = "carry"]
     \/ /\ member.len < MemberBatch
        /\ member' = [member EXCEPT !.pc = "panic"]
     \/ /\ 0 < member.len /\ member.len < MemberBatch
        /\ member' = [member EXCEPT !.pc = "carry"]
  /\ UNCHANGED <<storeVars, trackVars, pipeVars, workVars, voteVars, scan, runner>>

\* "oldUserIDs = userIDs[GroupUsersToProcess:]" panics with fewer IDs;
\* otherwise the rest of the list and the IDs that failed validation are
\* carried into the next turn.
CarryRest ==
  /\ member.pc = "carry"
  /\ IF member.len < MemberBatch
     THEN member' = [member EXCEPT !.pc = "panic"]
     ELSE \E failed \in 0..MemberBatch :
            member' = [member EXCEPT !.pc = "group",
                         !.old = Min(member.len - MemberBatch + failed, MemberBatch)]
  /\ UNCHANGED <<storeVars, trackVars, pipeVars, workVars, voteVars, scan, runner>>

InitMember ==
  /\ StoreIdle({})
  /\ PipeIdle /\ WorkIdle /\ VoteIdle
  /\ scan = NoScan /\ runner = NoRunner
  /\ member = NoMember

NextMember ==
  \/ MemberStart
  \/ processGroup
  \/ RequestPage
  \/ RequestFails
  \/ CheckNewUsers
  \/ SliceBatch
  \/ CarryRest

\* The goroutine of the worker keeps running; nothing makes the platform's
\* API fail.
SpecMember ==
  /\ InitMember /\ [][NextMember]_vars
  /\ WF_vars(RequestPage) /\ WF_vars(CheckNewUsers)

\* C38: the member worker slices its ID list at GroupUsersToProcess only when
\* the list holds that many IDs, and never panics.
SliceOnlyFullBatch ==
  /\ member.pc \in {"carry", "panic"} => member.len >= MemberBatch
  /\ member.pc # "panic"

\* C39: every processGroup call returns.
ProcessGroupReturns ==
  (member.pc = "page") ~> (member.pc \notin {"page", "lookup"})

\* ---- cmd/worker: runWorker ----

\* The number of starts of one worker the model counts up to.
MaxStarts == 3

RunnerOff == [pc |-> "off", starts |-> 0]

RunFrame == UNCHANGED <<storeVars, trackVars, pipeVars, workVars, voteVars, scan, member>>

\* The goroutine of worker p calls runWorker: the recover handler is deferred
\* and the loop calls w.Start().
runWorker(p) ==
  /\ runner[p].pc = "off"
  /\ runner' = [runner EXCEPT ![p] = [pc |-> "running", starts |-> 1]]
  /\ RunFrame

\* w.Start() returns: the loop logs it and sleeps five seconds.
StartReturns(p) ==
  /\ runner[p].pc = "running"
  /\ runner' = [runner EXCEPT ![p].pc = "sleeping"]
  /\ RunFrame

\* w.Start() panics: the loop is left and the deferred function runs.
StartPanics(p) ==
  /\ runner[p].pc = "running"
  /\ runner' = [runner EXCEPT ![p].pc = "panicking"]
  /\ RunFrame

\* The sleep ends and the loop calls w.Start() again.
Restart(p) ==
  /\ runner[p].pc = "sleeping"
  /\ runner' = [runner EXCEPT ![p].pc = "running",
                              ![p].starts = Min(@ + 1, MaxStarts)]
  /\ RunFrame

\* The deferred function recovers the panic and logs it; runWorker returns
\* and the goroutine ends.
Recover(p) ==
  /\ runner[p].pc = "panicking"
  /\ runner' = [runner EXCEPT ![p].pc = "returned"]
  /\ RunFrame

InitRun ==
  /\ StoreIdle({})
  /\ PipeIdle /\ WorkIdle /\ VoteIdle
  /\ scan = NoScan /\ member = NoMember
  /\ runner = [p \in Procs |-> RunnerOff]

NextRun ==
  \E p \in Procs :
    \/ runWorker(p)
    \/ StartReturns(p)
    \/ StartPanics(p)
    \/ Restart(p)
    \/ Recover(p)

\* Every goroutine keeps running: a sleep ends, a deferred function runs.
SpecRun ==
  /\ InitRun /\ [][NextRun]_vars
  /\ \A p \in Procs : WF_vars(runWorker(p)) /\ WF_vars(Restart(p)) /\ WF_vars(Recover(p))

\* C40: whenever Start of a worker has stopped, by returning or by panicking,
\* the worker is started again.
AlwaysRestarted ==
  \A p \in Procs :
    (runner[p].pc \in {"sleeping", "panicking"}) ~> (runner[p].pc = "running")
====
